---- MODULE Spec2Model ----
(***************************************************************************)
(* Model of the document field extraction and scoring engine:              *)
(*   Statements/Application_extractor.py  (application path)               *)
(*   Statements/Statements_extractor.py   (statement path)                 *)
(*                                                                         *)
(* Conventions.                                                            *)
(*  - A confidence is an integer number of 1/10000: 0.45 is 4500.          *)
(*  - A text line is a record of the features the regular expressions and  *)
(*    the fuzzy matcher read from it: sc is the tuple of partial_ratio     *)
(*    scores of the line against the phrases of the field's anchor list,   *)
(*    tok is what the field's window extractor can find in the line.       *)
(*  - A window (" | ".join of lines) is the sequence of its lines.         *)
(*  - Optional values: None is <<>>, a value v is <<v>>.                    *)
(*  - A date is its proleptic Gregorian ordinal (date.toordinal()).        *)
(***************************************************************************)
EXTENDS Integers, Sequences, FiniteSets, TLC

VARIABLES
    \* extract_fields_from_bytes, followed for one output key
    field, lines, source, layoutRes, textRes, now, hits, best, bestRank,
    viaFallback, fwaConf, prevRun, pc,
    \* summarize_statement: the ledger of one statement
    txns, opening, period, daily, negDays, lpc, stmt, filename, positions, month, monthly,
    \* text acquisition of one document
    path, doc, acqPc, pageNo, texts, textSource, paddleCalled,
    \* paddle_ocr_page called from several threads
    installed, ocrHandle, constructed, tpc, used, callsLeft,
    \* pick_avg_revenue
    monthly_deposits, state, avgRevenue, rpc,
    \* send_emails: one request against the deliveries table and the mail provider
    request, mailbox, deliveries, outbox, response, spc,
    \* GmailWatcher.tick and ingest_deal over one decisions table
    inbox, schema, decisions, report, calls

fxVars == <<field, lines, source, layoutRes, textRes, now, hits, best, bestRank,
            viaFallback, fwaConf, prevRun, pc>>
ledgerVars == <<txns, opening, period, daily, negDays, lpc, stmt, filename, positions, month,
                monthly>>
acqVars == <<path, doc, acqPc, pageNo, texts, textSource, paddleCalled>>
ocrVars == <<installed, ocrHandle, constructed, tpc, used, callsLeft>>
revVars == <<monthly_deposits, state, avgRevenue, rpc>>
sendVars == <<request, mailbox, deliveries, outbox, response, spc>>
ingestVars == <<inbox, schema, decisions, report, calls>>

vars == <<fxVars, ledgerVars, acqVars, ocrVars, revVars, sendVars, ingestVars>>

-----------------------------------------------------------------------------
(* Bounds of the model *)

MaxLines == 4
MaxReruns == 1

-----------------------------------------------------------------------------
(* Generic helpers *)

None == <<>>
Some(v) == <<v>>
\* a if it is a value, else b  (Python: a or b, on optionals)
OrElse(a, b) == IF a # <<>> THEN a ELSE b

Min(a, b) == IF a <= b THEN a ELSE b
Max(a, b) == IF a >= b THEN a ELSE b

\* round-half-even of n/d for d > 0 (Python's round on the values met here)
RoundDiv(n, d) ==
    LET q == n \div d
        r == n % d
    IN  IF 2 * r > d \/ (2 * r = d /\ q % 2 = 1) THEN q + 1 ELSE q

\* round(conf, 2) on a confidence in 1/10000
Round2(c) == 100 * RoundDiv(c, 100)

\* the first element of sequence s satisfying Test, as an optional
FirstMatch(s, Test(_), Get(_)) ==
    IF \E i \in 1..Len(s) : Test(s[i])
    THEN Get(s[CHOOSE i \in 1..Len(s) : Test(s[i]) /\ \A j \in 1..(i-1) : ~Test(s[j])])
    ELSE None

SeqsUpTo(S, n) == UNION { [1..m -> S] : m \in 0..n }

RECURSIVE SumSeq(_)
SumSeq(s) == IF s = <<>> THEN 0 ELSE Head(s) + SumSeq(Tail(s))

-----------------------------------------------------------------------------
(* Anchor index: best_anchor_hits_local *)

Floor == 80
TopK == 8
Radius == 2
HeadTail == 60

\* the (line, phrase, score) triples in the order the nested loops append them
Hit(ls, idx, a) == [idx |-> idx, anchor |-> a, score |-> ls[idx].sc[a]]

\* for a in anchors: if score >= 80: hits.append((idx, a, score))
HitsOfLine(ls, idx) ==
    SelectSeq(<<Hit(ls, idx, 1), Hit(ls, idx, 2)>>, LAMBDA h : h.score >= Floor)

RECURSIVE RawHitsFrom(_, _)
\* for idx, line in enumerate(lines_lower)
RawHitsFrom(ls, idx) ==
    IF idx > Len(ls) THEN <<>> ELSE HitsOfLine(ls, idx) \o RawHitsFrom(ls, idx + 1)

RawHits(ls) == RawHitsFrom(ls, 1)

DocumentOrder(h1, h2) == h1.idx < h2.idx

\* sort key of hits.sort(key=lambda x: (-x[2], x[0]))
HitBefore(h1, h2) ==
    \/ h1.score > h2.score
    \/ h1.score = h2.score /\ h1.idx < h2.idx

InsertAt(sorted, h, k) == SubSeq(sorted, 1, k) \o <<h>> \o SubSeq(sorted, k + 1, Len(sorted))

\* list.sort is stable: h goes behind every element it does not sort before
SortedInsert(sorted, h) ==
    InsertAt(sorted, h, Cardinality({ j \in 1..Len(sorted) : ~HitBefore(h, sorted[j]) }))

RECURSIVE StableSort(_, _, _)
StableSort(raw, i, sorted) ==
    IF i > Len(raw) THEN sorted ELSE StableSort(raw, i + 1, SortedInsert(sorted, raw[i]))

best_anchor_hits_local(ls) == StableSort(RawHits(ls), 1, <<>>)

\* window(lines, idx, radius=2); idx is 1-based here
window(ls, idx) ==
    LET s == Max(1, idx - Radius)
        e == Min(Len(ls), idx + Radius)
    IN  SubSeq(ls, s, e)

head(ls) == SubSeq(ls, 1, Min(Len(ls), HeadTail))
tail(ls) == SubSeq(ls, Max(1, Len(ls) - HeadTail + 1), Len(ls))

-----------------------------------------------------------------------------
(* Window extractors *)

\* RE_FICO matches a 3-digit token 300..850; extract_fico takes the first match
FicoInRange(t) == 300 <= t /\ t <= 850

extract_fico(win) == FirstMatch(win, LAMBDA l : FicoInRange(l.tok), LAMBDA l : Some(l.tok))

\* ---------- State: extract_state_stronger_multiline ----------
\* A State line's tok is a record:
\*   csz    ST of the first "City, ST ZIP" match on the line ("" none, "XX" no state)
\*   nm     abbreviation of the full state name on the line ("" none)
\*   zip    state of the first ZIP5 on the line by ZIP3 ("" no ZIP, "??" unmapped)
\*   addr   the line contains "address"
\*   street RE_STREET matches the line (leading street number)
\*   stop   the line contains a stop token of collect_address_blocks
\*   bare   first two-capital-letter token that is a state ("" none)

\* position of the abbreviations in US_STATES (iteration order of STATE_NAMES)
StateOrder(a) ==
    CASE a = "CA" -> 5 [] a = "NY" -> 32 [] a = "OH" -> 35 [] a = "TX" -> 43

US_STATES == {"CA", "NY", "OH", "TX"}

MaxBlockLines == 4

ValidState(o) == IF o # <<>> /\ o[1] \in US_STATES THEN o ELSE None


\* RE_CITY_STATE_ZIP.search(text): only the first match is looked at
CityStateZip(text) == ValidState(FirstMatch(text, LAMBDA l : l.tok.csz # "", LAMBDA l : Some(l.tok.csz)))

LeastState(found) ==
    IF found = {} THEN None
    ELSE Some(CHOOSE a \in found : \A b \in found : StateOrder(a) <= StateOrder(b))

\* for full_name, abbr in STATE_NAMES.items(): the first name in table order
StateName(text) == LeastState({ text[i].tok.nm : i \in 1..Len(text) } \ {""})

\* RE_ZIP5.search(text) then zip_to_state: only the first ZIP is looked at
ZipOnly(text) == ValidState(FirstMatch(text, LAMBDA l : l.tok.zip # "", LAMBDA l : Some(l.tok.zip)))

RECURSIVE BlockEnd(_, _, _)
\* the index after the last line of the block that starts at i (j scans from i+1)
BlockEnd(ls, i, j) ==
    IF j <= Len(ls) /\ j - i < MaxBlockLines /\ ~ls[j].tok.stop
    THEN BlockEnd(ls, i, j + 1)
    ELSE j

RECURSIVE BlocksFrom(_, _)
BlocksFrom(ls, i) ==
    IF i > Len(ls) THEN <<>>
    ELSE IF ls[i].tok.addr \/ ls[i].tok.street
         THEN <<SubSeq(ls, i, BlockEnd(ls, i, i + 1) - 1)>>
                  \o BlocksFrom(ls, BlockEnd(ls, i, i + 1))
         ELSE BlocksFrom(ls, i + 1)

collect_address_blocks(ls) == BlocksFrom(ls, 1)

\* (abbr, evidence) when layer result o is a state
StateResult(o, tag, text) ==
    IF o # <<>> THEN Some([abbr |-> o[1], tag |-> tag, ls |-> text]) ELSE None

\* what one stitched block yields ((a)-(c) repeated on the block)
BlockResult(block) ==
    OrElse(StateResult(CityStateZip(block), "[block city,st,zip]", block),
    OrElse(StateResult(StateName(block), "[block state-name]", block),
           StateResult(ZipOnly(block), "[block zip-only]", block)))

RECURSIVE FirstBlockResult(_, _)
FirstBlockResult(blocks, i) ==
    IF i > Len(blocks) THEN None
    ELSE OrElse(BlockResult(blocks[i]), FirstBlockResult(blocks, i + 1))

BlocksLayer(ls) == FirstBlockResult(collect_address_blocks(ls), 1)

\* any 2-letter token that is a state, only if "address" is in the window
AddressToken(win) ==
    IF \E i \in 1..Len(win) : win[i].tok.addr
    THEN FirstMatch(win, LAMBDA l : l.tok.bare \in US_STATES, LAMBDA l : Some(l.tok.bare))
    ELSE None

AddressTokenFirst(all_lines, win) ==
    OrElse(StateResult(AddressToken(win), "[address token]", win),
    OrElse(StateResult(CityStateZip(win), "[city,st,zip]", win),
    OrElse(StateResult(StateName(win), "[state-name]", win),
    OrElse(StateResult(ZipOnly(win), "[zip-only]", win),
           BlocksLayer(all_lines)))))

extract_state_stronger_multiline(all_lines, win) ==
    OrElse(StateResult(CityStateZip(win), "[city,st,zip]", win),
    OrElse(StateResult(StateName(win), "[state-name]", win),
    OrElse(StateResult(ZipOnly(win), "[zip-only]", win),
    OrElse(BlocksLayer(all_lines),
           StateResult(AddressToken(win), "[address token]", win)))))

AbbrOf(res) == IF res # <<>> THEN Some(res[1].abbr) ELSE None

\* _state(win) of extract_fields_from_bytes
StateValue(all_lines, win) == AbbrOf(extract_state_stronger_multiline(all_lines, win))

\* ---------- dates (datetime.date) ----------
IsLeap(y) == y % 4 = 0 /\ (y % 100 # 0 \/ y % 400 = 0)

DaysBeforeMonth(y, m) ==
    LET cum == <<0, 31, 59, 90, 120, 151, 181, 212, 243, 273, 304, 334>>
    IN  cum[m] + (IF m > 2 /\ IsLeap(y) THEN 1 ELSE 0)

DaysBeforeYear(y) ==
    LET p == y - 1 IN p * 365 + p \div 4 - p \div 100 + p \div 400

\* date(y, m, d).toordinal()
ToOrdinal(y, m, d) == DaysBeforeYear(y) + DaysBeforeMonth(y, m) + d

\* date.fromordinal(n).year, for the years the model uses
YearOf(n) == CHOOSE y \in 1990..2040 : DaysBeforeYear(y) < n /\ n <= DaysBeforeYear(y + 1)

\* ---------- Length of ownership: parse_tib_value_strict ----------
\* A duration line's tok is a record:
\*   kw     the line contains one of TIB_KEYWORDS
\*   ym     first "N years M months" on the line, <<N, M>> (<<>> none)
\*   mo     first "N months" on the line, in 1/100 month (<<>> none)
\*   yr     first "N years" on the line, in 1/100 year (<<>> none)
\*   dates  the RE_DATE matches of the line in order; each is <<ordinal>>, or
\*          <<>> when dateparser.parse raises on it
\*   since  year of the first "(estab*|since|started) YYYY" on the line (<<>> none)
\* A duration value is <<months in 1/100, years in 1/100>>.

Earliest(c) == IF c = {} THEN None ELSE Some(CHOOSE d \in c : \A e \in c : d <= e)

DateTokens(neigh) ==
    UNION { { neigh[i].tok.dates[j] : j \in 1..Len(neigh[i].tok.dates) } :
              i \in 1..Len(neigh) }

\* try: ... except Exception: pass around dateparser.parse: nothing the body
\* raises leaves the loop
Propagates(raises) == raises

ExceptPass(raises) == FALSE

\* does parse_date_candidate raise on this text?
DateCandidateRaises(neigh) == ExceptPass(\E x \in DateTokens(neigh) : x = <<>>)

\* parse_date_candidate: the earliest parsable date with year > 1900, not after now
parse_date_candidate(neigh, today) ==
    Earliest({ d \in { r[1] : r \in { x \in DateTokens(neigh) : x # <<>> } } :
                 YearOf(d) > 1900 /\ d <= today })

\* "N years M months": total_m = yrs*12 + mos
FromYearsMonths(m) ==
    IF m = <<>> THEN None
    ELSE Some(<<(m[1][1] * 12 + m[1][2]) * 100, RoundDiv((m[1][1] * 12 + m[1][2]) * 100, 12)>>)

\* "N months"
FromMonths(m) == IF m = <<>> THEN None ELSE Some(<<m[1], RoundDiv(m[1], 12)>>)

\* "N years"
FromYears(m) == IF m = <<>> THEN None ELSE Some(<<10 * RoundDiv(m[1] * 12, 10), m[1]>>)

\* a start date: delta = (now - dt).days; delta / 30.4375 and delta / 365.25
FromDate(dt, today) ==
    IF dt = <<>> THEN None
    ELSE Some(<<10 * RoundDiv((today - dt[1]) * 100000, 304375),
                RoundDiv((today - dt[1]) * 10000, 36525)>>)

\* a founding year: 1900 < year <= now.year
FromYear(m, today) ==
    IF m # <<>> /\ 1900 < m[1] /\ m[1] <= YearOf(today)
    THEN Some(<<(YearOf(today) - m[1]) * 1200, (YearOf(today) - m[1]) * 100>>)
    ELSE None

YearsBeforeMonths(neigh, today) ==
    IF ~\E i \in 1..Len(neigh) : neigh[i].tok.kw THEN None
    ELSE
    OrElse(FromYearsMonths(FirstMatch(neigh, LAMBDA l : l.tok.ym # <<>>, LAMBDA l : l.tok.ym)),
    OrElse(FromYears(FirstMatch(neigh, LAMBDA l : l.tok.yr # <<>>, LAMBDA l : l.tok.yr)),
    OrElse(FromMonths(FirstMatch(neigh, LAMBDA l : l.tok.mo # <<>>, LAMBDA l : l.tok.mo)),
    OrElse(FromDate(parse_date_candidate(neigh, today), today),
           FromYear(FirstMatch(neigh, LAMBDA l : l.tok.since # <<>>, LAMBDA l : l.tok.since), today)))))

parse_tib_value_strict(neigh, today) ==
    IF ~\E i \in 1..Len(neigh) : neigh[i].tok.kw THEN None
    ELSE
    OrElse(FromYearsMonths(FirstMatch(neigh, LAMBDA l : l.tok.ym # <<>>, LAMBDA l : l.tok.ym)),
    OrElse(FromMonths(FirstMatch(neigh, LAMBDA l : l.tok.mo # <<>>, LAMBDA l : l.tok.mo)),
    OrElse(FromYears(FirstMatch(neigh, LAMBDA l : l.tok.yr # <<>>, LAMBDA l : l.tok.yr)),
    OrElse(FromDate(parse_date_candidate(neigh, today), today),
           FromYear(FirstMatch(neigh, LAMBDA l : l.tok.since # <<>>, LAMBDA l : l.tok.since), today)))))

\* parse_tib_value_strict calls parse_date_candidate: a keyword is present and
\* none of the three duration patterns matches
ReachesDates(neigh) ==
    /\ \E i \in 1..Len(neigh) : neigh[i].tok.kw
    /\ \A i \in 1..Len(neigh) :
           neigh[i].tok.ym = <<>> /\ neigh[i].tok.mo = <<>> /\ neigh[i].tok.yr = <<>>

\* f"{mos:.1f} months ({yrs:.2f} years)": the text is fixed by the months in
\* 1/10 and the years in 1/100
FormatTib(v) == [months10 |-> RoundDiv(v[1], 10), years100 |-> v[2]]

\* ---------- Business name: name_score, extract_bn_from_window ----------
\* A candidate name is a record of what name_score reads from the text:
\*   id, len (characters), address (is_probably_address), stopword (contains one
\*   of STOP_WORDS), suffix (CORP_SUFFIXES_RE matches), ntok (tokens), caps
\*   (capitalised tokens), amp (" & " or " - "), digits, endpunct (ends with . or ,),
\*   industry (starts with "industry ")
name_score(n) ==
    IF n.len < 2 \/ n.len > 120 THEN -999
    ELSE IF n.address THEN -5
    ELSE IF n.stopword THEN -2
    ELSE IF n.ntok = 0 THEN -2
    ELSE (IF n.suffix THEN 5 ELSE 0)
       + (IF 2 <= n.ntok /\ n.ntok <= 6 THEN 2 ELSE 0)
       + (IF 10 * n.caps >= 7 * Max(1, n.ntok) THEN 2 ELSE 0)
       + (IF n.amp THEN 1 ELSE 0)
       - (IF n.digits >= 3 THEN 2 ELSE 0)
       - (IF n.endpunct THEN 1 ELSE 0)
       - (IF n.industry THEN 5 ELSE 0)

\* A business-name line's tok is a record: lbl (the line contains one of
\* BN_LABELS), cand (the cleaned text between the label and the first stop
\* token, <<>> when cut <= 0)
AcceptName(c) ==
    IF c # <<>> /\ 2 <= c[1].len /\ c[1].len <= 120 /\ name_score(c[1]) >= 1
    THEN c ELSE None

extract_bn_from_window(win) == AcceptName(FirstMatch(win, LAMBDA l : l.tok.lbl, LAMBDA l : l.tok.cand))

\* ---------- Industry: classify_industry ----------
\* An industry line's tok is a record: lab (<<>>: the label regex does not match
\* the line; <<"">>: it matches with a candidate shorter than 2; <<c>>: candidate
\* c), kws (the keywords of INDUSTRY_KEYWORDS the line contains)
INDUSTRY_KEYWORDS ==
    << [label |-> "Restaurants", kws |-> {"pizza", "grill"}],
       [label |-> "Retail",      kws |-> {"store", "shop"}] >>

IndustryHits(n, t) == Cardinality(INDUSTRY_KEYWORDS[n].kws \cap t)

\* best, hits = None, 0; for label, kws in ...: if h > hits: best, hits = label, h
KeywordVote(t) ==
    LET top == { n \in 1..Len(INDUSTRY_KEYWORDS) :
                   /\ IndustryHits(n, t) > 0
                   /\ \A m \in 1..Len(INDUSTRY_KEYWORDS) :
                        \/ IndustryHits(m, t) < IndustryHits(n, t)
                        \/ (IndustryHits(m, t) = IndustryHits(n, t) /\ n <= m) }
    IN  IF top = {} THEN None ELSE Some(INDUSTRY_KEYWORDS[CHOOSE n \in top : TRUE].label)

classify_industry(text_all) ==
    OrElse(FirstMatch(text_all, LAMBDA l : l.tok.lab # <<>>,
                      LAMBDA l : IF l.tok.lab # <<"">> THEN l.tok.lab ELSE None),
           KeywordVote(UNION { text_all[j].tok.kws : j \in 1..Len(text_all) }))

-----------------------------------------------------------------------------
(* Confidence resolver: find_with_anchors *)

Fields == {"FICO", "State", "BusinessName", "Industry", "LengthOfOwnership"}

\* conf_base passed by extract_fields_from_bytes (default 0.6)
conf_base(f) ==
    CASE f = "FICO" -> 6000
      [] f = "State" -> 6200
      [] f = "BusinessName" -> 7200
      [] f = "Industry" -> 5500
      [] f = "LengthOfOwnership" -> 6000

\* extractor_fn of each call of find_with_anchors
Extract(f, ls, win, today) ==
    CASE f = "FICO" -> extract_fico(win)
      [] f = "State" -> StateValue(ls, win)
      [] f = "BusinessName" -> extract_bn_from_window(win)
      [] f = "Industry" -> classify_industry(win)
      [] f = "LengthOfOwnership" -> parse_tib_value_strict(win, today)

\* does extractor_fn raise on this text?
ExtractRaises(f, win) ==
    f = "LengthOfOwnership" /\ ReachesDates(win) /\ DateCandidateRaises(win)

PhraseName(a) == IF a = 1 THEN "phrase-1" ELSE "phrase-2"

Text(ls) == [tag |-> "", ls |-> ls]
EmptyEvidence == [anchor |-> "", line |-> Text(<<>>)]
FieldResult(v, c, e) == [value |-> v, confidence |-> c, evidence |-> e]
NotFound == FieldResult(None, 0, EmptyEvidence)

FallbackConfidence == 4500

WeakerIsSurer(base, score) == Min(base + (180 - score) * 35, 9800)

\* conf = min(conf_base + (score/100.0)*0.35, 0.98)
HitConfidence(base, score) == Min(base + score * 35, 9800)

\* does the candidate of a hit replace best?  (if conf > best.confidence)
Replaces(conf, b) == conf > b.confidence

HeadTailResult(v) ==
    IF v # <<>>
    THEN FieldResult(v, FallbackConfidence,
             [anchor |-> "global-fallback",
              line |-> [tag |-> "(document head/tail)", ls |-> <<>>]])
    ELSE NotFound

\* v = extractor_fn(head) or extractor_fn(tail)
headtail_try(f, ls, today) ==
    HeadTailResult(OrElse(Extract(f, ls, head(ls), today), Extract(f, ls, tail(ls), today)))

\* one iteration of the loop: b is [res |-> best, rank |-> rank of the hit kept]
TryHit(b, v, conf, h, win, i) ==
    IF v # <<>> /\ Replaces(conf, b.res)
    THEN [res |-> FieldResult(v, Round2(conf),
                     [anchor |-> PhraseName(h.anchor), line |-> Text(win)]),
          rank |-> i]
    ELSE b

RECURSIVE ConsultAll(_, _, _, _, _, _)
ConsultAll(f, ls, today, hs, i, b) ==
    IF i > Len(hs) THEN b
    ELSE ConsultAll(f, ls, today, hs, i + 1,
             TryHit(b, Extract(f, ls, window(ls, hs[i].idx), today),
                    HitConfidence(conf_base(f), hs[i].score),
                    hs[i], window(ls, hs[i].idx), i))

RECURSIVE FwaLoop(_, _, _, _, _, _)
\* for (idx, anchor, score) in hits[:8]
FwaLoop(f, ls, today, hs, i, b) ==
    IF i > Min(Len(hs), TopK) THEN b
    ELSE FwaLoop(f, ls, today, hs, i + 1,
             TryHit(b, Extract(f, ls, window(ls, hs[i].idx), today),
                    HitConfidence(conf_base(f), hs[i].score),
                    hs[i], window(ls, hs[i].idx), i))

\* if not best.value: return headtail_try()
FwaReturn(b, f, ls, today) ==
    IF b.res.value = <<>>
    THEN [res |-> headtail_try(f, ls, today), rank |-> 0, fallback |-> TRUE]
    ELSE [res |-> b.res, rank |-> b.rank, fallback |-> FALSE]

\* [res |-> the FieldResult returned, rank, fallback]
find_with_anchors(f, ls, today) ==
    FwaReturn(FwaLoop(f, ls, today, best_anchor_hits_local(ls), 1,
                      [res |-> NotFound, rank |-> 0]),
              f, ls, today)

\* does find_with_anchors raise?  Every one of hits[:8] is consulted, then the
\* head, and the tail when the head yields nothing
FwaRaises(f, ls, today, hs, fallback) ==
    \/ \E i \in 1..Min(Len(hs), TopK) : ExtractRaises(f, window(ls, hs[i].idx))
    \/ /\ fallback
       /\ \/ ExtractRaises(f, head(ls))
          \/ Extract(f, ls, head(ls), today) = None /\ ExtractRaises(f, tail(ls))

-----------------------------------------------------------------------------
(* Documents: the line kinds each field's resolution is run on *)

FicoLines ==
    { [sc |-> <<60, 60>>,  tok |-> 0],      \* no anchor, no 3-digit token
      [sc |-> <<79, 60>>,  tok |-> 700],    \* a score on a line below the floor
      [sc |-> <<81, 80>>,  tok |-> 640],    \* "fico scor 640"
      [sc |-> <<87, 60>>,  tok |-> 700],
      [sc |-> <<86, 86>>,  tok |-> 900],    \* anchor with an out-of-range number
      [sc |-> <<100, 81>>, tok |-> 0] }     \* "FICO" alone

StateTok(csz, nm, zip, addr, street, stop, bare) ==
    [csz |-> csz, nm |-> nm, zip |-> zip, addr |-> addr, street |-> street,
     stop |-> stop, bare |-> bare]

StateLines ==
    { [sc |-> <<60, 60>>,   tok |-> StateTok("", "", "", FALSE, FALSE, TRUE, "")],       \* "Owner: John Smith"
      [sc |-> <<100, 100>>, tok |-> StateTok("", "", "", TRUE, FALSE, FALSE, "")],       \* "Business Address"
      [sc |-> <<60, 60>>,   tok |-> StateTok("", "", "", FALSE, TRUE, FALSE, "")],       \* "123 Main St"
      [sc |-> <<60, 60>>,   tok |-> StateTok("TX", "", "TX", FALSE, FALSE, FALSE, "TX")],\* "Dallas, TX 75201"
      [sc |-> <<60, 60>>,   tok |-> StateTok("", "OH", "", FALSE, FALSE, FALSE, "")],    \* "Columbus Ohio"
      [sc |-> <<100, 60>>,  tok |-> StateTok("", "", "", FALSE, FALSE, FALSE, "NY")],    \* "State: NY"
      [sc |-> <<81, 60>>,   tok |-> StateTok("", "", "NY", FALSE, FALSE, FALSE, "")] }   \* "Stat  10001"

TibTok(kw, ym, mo, yr, dates, since) ==
    [kw |-> kw, ym |-> ym, mo |-> mo, yr |-> yr, dates |-> dates, since |-> since]

StartDate == ToOrdinal(2020, 1, 1)
ApplicationDate == ToOrdinal(2024, 1, 1)

\* "Business Start Date 01/01/2020"
StartDateLine ==
    [sc |-> <<100, 81>>, tok |-> TibTok(TRUE, None, None, None, <<Some(StartDate)>>, None)]

\* "Application Date 01/01/2024"
ApplicationDateLine ==
    [sc |-> <<60, 60>>, tok |-> TibTok(FALSE, None, None, None, <<Some(ApplicationDate)>>, None)]

TibLines ==
    { [sc |-> <<60, 60>>,   tok |-> TibTok(FALSE, None, None, None, <<>>, None)],
      \* "Time in Business: 3 years 6 months"
      [sc |-> <<100, 60>>,  tok |-> TibTok(TRUE, Some(<<3, 6>>), Some(600), Some(300), <<>>, None)],
      \* "18 months"
      [sc |-> <<60, 60>>,   tok |-> TibTok(FALSE, None, Some(1800), None, <<>>, None)],
      \* "5 years"
      [sc |-> <<60, 60>>,   tok |-> TibTok(FALSE, None, None, Some(500), <<>>, None)],
      StartDateLine,
      ApplicationDateLine,
      \* "Established since 2015"
      [sc |-> <<100, 100>>, tok |-> TibTok(TRUE, None, None, None, <<>>, Some(2015))],
      \* "Owner since 13/45/2020": a date token dateparser rejects
      [sc |-> <<100, 60>>,  tok |-> TibTok(TRUE, None, None, None, <<None>>, None)] }

NameOf(id, len, suffix, ntok, caps) ==
    [id |-> id, len |-> len, address |-> FALSE, stopword |-> FALSE, suffix |-> suffix,
     ntok |-> ntok, caps |-> caps, amp |-> FALSE, digits |-> 0, endpunct |-> FALSE,
     industry |-> FALSE]

AcmeLLC   == NameOf("Acme Holdings LLC", 17, TRUE, 3, 3)
JoesPizza == NameOf("Joes Pizza", 10, FALSE, 2, 2)
PizzaPalace == NameOf("Pizza Palace", 12, FALSE, 2, 2)

BnLines ==
    { [sc |-> <<60, 60>>,   tok |-> [lbl |-> FALSE, cand |-> None]],
      [sc |-> <<100, 100>>, tok |-> [lbl |-> TRUE,  cand |-> Some(AcmeLLC)]],   \* "Legal Business Name: Acme Holdings LLC"
      [sc |-> <<100, 60>>,  tok |-> [lbl |-> TRUE,  cand |-> Some(JoesPizza)]], \* "DBA Joes Pizza"
      [sc |-> <<100, 60>>,  tok |-> [lbl |-> TRUE,  cand |-> None]],            \* "Company Name: Owner ..."
      [sc |-> <<81, 60>>,   tok |-> [lbl |-> FALSE, cand |-> None]] }           \* "Busines nme"

IndustryLines ==
    { [sc |-> <<60, 60>>,  tok |-> [lab |-> None, kws |-> {}]],
      [sc |-> <<100, 60>>, tok |-> [lab |-> Some("Automotive"), kws |-> {}]],   \* "Industry: Automotive"
      [sc |-> <<100, 60>>, tok |-> [lab |-> Some(""), kws |-> {}]],             \* "NAICS: 5"
      [sc |-> <<60, 60>>,  tok |-> [lab |-> None, kws |-> {"pizza", "grill"}]], \* "Joes Pizza and Grill"
      [sc |-> <<60, 60>>,  tok |-> [lab |-> None, kws |-> {"store", "shop"}]],  \* "Gift shop, online store"
      [sc |-> <<87, 60>>,  tok |-> [lab |-> None, kws |-> {"pizza"}]] }         \* "Type of busines pizza"

LineKinds(f) ==
    CASE f = "FICO" -> FicoLines
      [] f = "State" -> StateLines
      [] f = "BusinessName" -> BnLines
      [] f = "Industry" -> IndustryLines
      [] f = "LengthOfOwnership" -> TibLines

\* the instants a run may happen at
Nows == {ApplicationDate, ToOrdinal(2024, 2, 1)}

\* what extract_business_name_layout_aware returns: <<>> or <<[val, boost]>>
LayoutResults ==
    { None, Some([val |-> AcmeLLC, boost |-> 1800]), Some([val |-> JoesPizza, boost |-> 1000]) }

\* what extract_business_name_stronger returns
TextResults ==
    { None, Some([val |-> AcmeLLC, boost |-> 1000]), Some([val |-> JoesPizza, boost |-> 600]),
      Some([val |-> PizzaPalace, boost |-> 600]) }

-----------------------------------------------------------------------------
(* extract_fields_from_bytes, followed for one output key.  The five         *)
(* resolutions read lines (BusinessName also source and the PDF bytes) and   *)
(* write their own key only, so a behaviour follows one of them.             *)

InitFields ==
    /\ field \in Fields
    /\ lines \in SeqsUpTo(LineKinds(field), MaxLines)
    /\ source \in (IF field = "BusinessName" THEN {"native", "ocr"} ELSE {"native"})
    /\ layoutRes \in (IF field = "BusinessName" /\ source = "native"
                      THEN LayoutResults ELSE {None})
    /\ textRes \in (IF field = "BusinessName" THEN TextResults ELSE {None})
    /\ now \in (IF field = "LengthOfOwnership" THEN Nows ELSE {ApplicationDate})
    /\ hits = <<>>
    /\ best = NotFound
    /\ bestRank = 0
    /\ viaFallback = FALSE
    /\ fwaConf = 0
    /\ prevRun = <<>>
    /\ pc = "resolve"

\* out[key] = find_with_anchors(lines, lines_lower, key, ANCHORS, extractor, conf_base)
FindWithAnchors ==
    /\ pc = "resolve"
    /\ hits' = best_anchor_hits_local(lines)
    /\ \E r \in {find_with_anchors(field, lines, now)} :
           IF FwaRaises(field, lines, now, hits', r.fallback)
           THEN /\ pc' = "raised"
                /\ UNCHANGED <<best, bestRank, viaFallback, fwaConf>>
           ELSE /\ best' = r.res
                /\ bestRank' = r.rank
                /\ viaFallback' = r.fallback
                /\ fwaConf' = r.res.confidence
                /\ pc' = "post"
    /\ UNCHANGED <<field, lines, source, layoutRes, textRes, now, prevRun>>
    /\ UNCHANGED <<ledgerVars, acqVars, ocrVars, revVars, sendVars, ingestVars>>

\* FICO and Industry are stored as find_with_anchors returned them
StoreField ==
    /\ pc = "post"
    /\ field \in {"FICO", "Industry"}
    /\ pc' = "done"
    /\ UNCHANGED <<field, lines, source, layoutRes, textRes, now, hits, best,
                   bestRank, viaFallback, fwaConf, prevRun>>
    /\ UNCHANGED <<ledgerVars, acqVars, ocrVars, revVars, sendVars, ingestVars>>

\* State: the evidence is rewritten from a second resolution on the evidence line
RewriteEvidence(st, res) ==
    IF st.value # <<>> /\ res # <<>>
    THEN [st EXCEPT !.evidence =
             [anchor |-> "address-aware", line |-> [tag |-> res[1].tag, ls |-> res[1].ls]]]
    ELSE st

RewriteStateEvidence(st, ls) ==
    RewriteEvidence(st, extract_state_stronger_multiline(ls, st.evidence.line.ls))

StateEvidence ==
    /\ pc = "post"
    /\ field = "State"
    /\ best' = RewriteStateEvidence(best, lines)
    /\ pc' = "nudge"
    /\ UNCHANGED <<field, lines, source, layoutRes, textRes, now, hits,
                   bestRank, viaFallback, fwaConf, prevRun>>
    /\ UNCHANGED <<ledgerVars, acqVars, ocrVars, revVars, sendVars, ingestVars>>

\* any(tag in st.evidence.get("line","") for tag in ["city,st,zip","zip-only","block "])
ZipTied(line) ==
    line.tag \in {"[city,st,zip]", "[zip-only]", "[block city,st,zip]",
                  "[block state-name]", "[block zip-only]"}

NudgeStateNoFloor(st) ==
    IF st.value # <<>> /\ ZipTied(st.evidence.line)
    THEN [st EXCEPT !.confidence = Min(9900, st.confidence + 800)]
    ELSE st

NudgeStateUncapped(st) ==
    IF st.value # <<>> /\ ZipTied(st.evidence.line)
    THEN [st EXCEPT !.confidence = Max(st.confidence, 7600) + 800]
    ELSE st

\* st.confidence = min(0.99, max(st.confidence, 0.76) + 0.08)
NudgeState(st) ==
    IF st.value # <<>> /\ ZipTied(st.evidence.line)
    THEN [st EXCEPT !.confidence = Min(9900, Max(st.confidence, 7600) + 800)]
    ELSE st

StateNudge ==
    /\ pc = "nudge"
    /\ best' = NudgeState(best)
    /\ pc' = "done"
    /\ UNCHANGED <<field, lines, source, layoutRes, textRes, now, hits,
                   bestRank, viaFallback, fwaConf, prevRun>>
    /\ UNCHANGED <<ledgerVars, acqVars, ocrVars, revVars, sendVars, ingestVars>>

\* BusinessName: layout-aware and text-heuristic candidates, then the boosts
TakeIfNotWorse(bn, cand, how) ==
    IF cand # <<>> /\ (bn.value = <<>> \/ name_score(cand[1].val) >= name_score(bn.value[1]))
    THEN [bn EXCEPT !.value = Some(cand[1].val),
                    !.evidence = [anchor |-> how, line |-> Text(<<>>)]]
    ELSE bn

TakeIfBetter(bn, cand, how) ==
    IF cand # <<>> /\ (bn.value = <<>> \/ name_score(cand[1].val) > name_score(bn.value[1]))
    THEN [bn EXCEPT !.value = Some(cand[1].val),
                    !.evidence = [anchor |-> how, line |-> Text(<<>>)]]
    ELSE bn

BoostOf(res) == IF res # <<>> THEN res[1].boost ELSE 0

\* layout_res is computed only when source == "native"
LayoutUsed(src, layout) == IF src = "native" THEN layout ELSE None

\* text_res is computed only if not bn_field.value or bn_field.confidence < 0.82
TextUsed(bn, text) == IF bn.value = <<>> \/ bn.confidence < 8200 THEN text ELSE None

FinalBusinessNameUncapped(bn, boost) ==
    IF bn.value # <<>>
    THEN [bn EXCEPT !.confidence =
             Max(bn.confidence, 7000) + boost + (IF bn.value[1].suffix THEN 300 ELSE 0)]
    ELSE bn

\* bn_field.confidence = float(min(0.99, base + conf_boost))
FinalBusinessName(bn, boost) ==
    IF bn.value # <<>>
    THEN [bn EXCEPT !.confidence =
             Min(9900, Max(bn.confidence, 7000) + boost
                         + (IF bn.value[1].suffix THEN 300 ELSE 0))]
    ELSE bn

AfterText(bn, text, boost1) ==
    FinalBusinessName(TakeIfBetter(bn, text, "text-heuristic"), boost1 + BoostOf(text))

AfterLayout(bn, text, boost1) == AfterText(bn, TextUsed(bn, text), boost1)

BoostWith(bn, layout, text) ==
    AfterLayout(TakeIfBetter(bn, layout, "layout-aware"), text, BoostOf(layout))

BoostBusinessName(bn, src, layout, text) == BoostWith(bn, LayoutUsed(src, layout), text)

BusinessName ==
    /\ pc = "post"
    /\ field = "BusinessName"
    /\ best' = BoostBusinessName(best, source, layoutRes, textRes)
    /\ pc' = "done"
    /\ UNCHANGED <<field, lines, source, layoutRes, textRes, now, hits,
                   bestRank, viaFallback, fwaConf, prevRun>>
    /\ UNCHANGED <<ledgerVars, acqVars, ocrVars, revVars, sendVars, ingestVars>>

\* LengthOfOwnership: the (months, years) tuple becomes the display string
FormatOwnership(tib) ==
    IF tib.value # <<>> THEN [tib EXCEPT !.value = Some(FormatTib(tib.value[1]))] ELSE tib

LengthOfOwnership ==
    /\ pc = "post"
    /\ field = "LengthOfOwnership"
    /\ best' = FormatOwnership(best)
    /\ pc' = "done"
    /\ UNCHANGED <<field, lines, source, layoutRes, textRes, now, hits,
                   bestRank, viaFallback, fwaConf, prevRun>>
    /\ UNCHANGED <<ledgerVars, acqVars, ocrVars, revVars, sendVars, ingestVars>>

\* the caller runs extract_fields_from_bytes again on the same bytes, later
Rerun ==
    /\ pc = "done"
    /\ Len(prevRun) < MaxReruns
    /\ prevRun' = Append(prevRun, best.value)
    /\ now' \in { t \in Nows : t >= now }
    /\ hits' = <<>>
    /\ best' = NotFound
    /\ bestRank' = 0
    /\ viaFallback' = FALSE
    /\ fwaConf' = 0
    /\ pc' = "resolve"
    /\ UNCHANGED <<field, lines, source, layoutRes, textRes>>
    /\ UNCHANGED <<ledgerVars, acqVars, ocrVars, revVars, sendVars, ingestVars>>

\* Long documents for the FICO resolution: documents of up to MaxLongLines
\* lines with more anchor hits than are consulted, and documents longer than
\* the head and the tail, a few lines around HeadTail lines without content
MaxLongLines == 7

Blank == [sc |-> <<60, 60>>, tok |-> 0]
FicoAlone == [sc |-> <<100, 81>>, tok |-> 0]
BareScore(t) == [sc |-> <<60, 60>>, tok |-> t]

RankDocs == SeqsUpTo({Blank, FicoAlone, [sc |-> <<81, 80>>, tok |-> 640]}, MaxLongLines)

Ends == SeqsUpTo({Blank, FicoAlone, BareScore(640), BareScore(700)}, 2)

LongDocs == {h \o [i \in 1..HeadTail |-> Blank] \o t : h \in Ends, t \in Ends}

InitLongDocument ==
    /\ field = "FICO"
    /\ lines \in RankDocs \cup LongDocs
    /\ source = "native"
    /\ layoutRes = None
    /\ textRes = None
    /\ now = ApplicationDate
    /\ hits = <<>>
    /\ best = NotFound
    /\ bestRank = 0
    /\ viaFallback = FALSE
    /\ fwaConf = 0
    /\ prevRun = <<>>
    /\ pc = "resolve"

NextLong ==
    \/ FindWithAnchors
    \/ StoreField

NextFields ==
    \/ FindWithAnchors
    \/ StoreField
    \/ StateEvidence
    \/ StateNudge
    \/ BusinessName
    \/ LengthOfOwnership

-----------------------------------------------------------------------------
(* Statement ledger: rebuild_daily_balances and count_negative_days as       *)
(* summarize_statement calls them.  A day is a date ordinal, an amount is in *)
(* whole dollars, a period is [start, end] (the label is not read here).     *)

MaxTxns == 2
MaxDay == 5

Days == 1..MaxDay
Amounts == {-100, 40}
Openings == {None, Some(-50), Some(20)}
Periods == {None} \cup { Some([start |-> p[1], end |-> p[2]]) :
                           p \in { q \in Days \X Days : q[1] <= q[2] } }

\* parse_transactions returns txns sorted by date
SortedTxns ==
    { ts \in SeqsUpTo([dt : Days, desc : {"Rent"}, amount : Amounts], MaxTxns) :
        \A i \in 1..(Len(ts) - 1) : ts[i].dt <= ts[i + 1].dt }

RECURSIVE DayTotal(_, _, _)
\* for t in by_day[d]: bal += t.amount
DayTotal(ts, d, i) ==
    IF i > Len(ts) THEN 0
    ELSE (IF ts[i].dt = d THEN ts[i].amount ELSE 0) + DayTotal(ts, d, i + 1)

RECURSIVE FillDays(_, _, _, _, _)
\* while d <= d2: ...; daily[d] = bal; d += timedelta(days=1)
FillDays(ts, d, d2, bal, dly) ==
    IF d > d2 THEN dly
    ELSE FillDays(ts, d + 1, d2, bal + DayTotal(ts, d, 1),
                  dly @@ (d :> bal + DayTotal(ts, d, 1)))

MinDate(ts) == CHOOSE d \in { ts[i].dt : i \in 1..Len(ts) } : \A i \in 1..Len(ts) : d <= ts[i].dt
MaxDate(ts) == CHOOSE d \in { ts[i].dt : i \in 1..Len(ts) } : \A i \in 1..Len(ts) : d >= ts[i].dt

\* if period: _, d1, d2 = period; else: min and max of the txn dates
PeriodStart(ts, per) == IF per # <<>> THEN per[1].start ELSE MinDate(ts)
PeriodEnd(ts, per) == IF per # <<>> THEN per[1].end ELSE MaxDate(ts)

\* bal = opening_balance if opening_balance is not None else 0.0
StartBalance(opening_balance) == IF opening_balance # <<>> THEN opening_balance[1] ELSE 0

\* if not txns: return daily
rebuild_daily_balances(ts, opening_balance, per) ==
    IF ts = <<>> THEN <<>>
    ELSE FillDays(ts, PeriodStart(ts, per), PeriodEnd(ts, per),
                  StartBalance(opening_balance), <<>>)

count_negative_days(dly) == Cardinality({ d \in DOMAIN dly : dly[d] < 0 })

NoPositions == [daily |-> <<>>, weekly |-> <<>>]

\* three empty dicts
NoCounts == [debit_counts |-> <<>>, credit_counts |-> <<>>, monthly_deposits |-> <<>>]

InitLedger ==
    /\ txns \in SortedTxns
    /\ opening \in Openings
    /\ period \in Periods
    /\ daily = <<>>
    /\ negDays = 0
    /\ lpc = "parsed"
    /\ stmt = <<>>
    /\ filename = None
    /\ monthly = NoCounts
    /\ positions = NoPositions
    /\ month = ""

\* daily = rebuild_daily_balances(txns, opening, period)
RebuildDailyBalances ==
    /\ lpc = "parsed"
    /\ daily' = rebuild_daily_balances(txns, opening, period)
    /\ lpc' = "rebuilt"
    /\ UNCHANGED <<txns, opening, period, negDays, stmt, filename, monthly, positions, month>>
    /\ UNCHANGED <<fxVars, acqVars, ocrVars, revVars, sendVars, ingestVars>>

\* neg_days = count_negative_days(daily)
CountNegativeDays ==
    /\ lpc = "rebuilt"
    /\ negDays' = count_negative_days(daily)
    /\ lpc' = "done"
    /\ UNCHANGED <<txns, opening, period, daily, stmt, filename, monthly, positions, month>>
    /\ UNCHANGED <<fxVars, acqVars, ocrVars, revVars, sendVars, ingestVars>>

NextLedger ==
    \/ RebuildDailyBalances
    \/ CountNegativeDays

-----------------------------------------------------------------------------
(* detect_positions: recurring descriptions.  A description is the sequence  *)
(* of its whitespace-separated pieces; DescTable lists the raw descriptions  *)
(* in str order, which is the order of the (dt, desc) sort key               *)

MaxDescs == 9

DescTable == <<
    [desc |-> "ADP PAYROLL #12345",  toks |-> <<"ADP", "PAYROLL", "#", "12345">>],
    [desc |-> "ADP Payroll",         toks |-> <<"ADP", "Payroll">>],
    [desc |-> "ATM",                 toks |-> <<"ATM">>],
    [desc |-> "Deposit",             toks |-> <<"Deposit">>],
    [desc |-> "Loan Pmt",            toks |-> <<"Loan", "Pmt">>],
    [desc |-> "Rent",                toks |-> <<"Rent">>],
    [desc |-> "Square",              toks |-> <<"Square">>],
    [desc |-> "Stripe",              toks |-> <<"Stripe">>],
    [desc |-> "Uber",                toks |-> <<"Uber">>],
    [desc |-> "Zelle",               toks |-> <<"Zelle">> ] >>

Descs == 1..Min(MaxDescs, Len(DescTable))

\* the words of the descriptions in lower case, in str order
Lexicon == <<"adp", "atm", "deposit", "loan", "payroll", "pmt", "rent",
             "square", "stripe", "uber", "zelle">>

SameCase(w) == w

\* str.lower
Lower(w) ==
    CASE w = "ADP" -> "adp"
      [] w = "PAYROLL" -> "payroll"
      [] w = "Payroll" -> "payroll"
      [] w = "ATM" -> "atm"
      [] w = "Deposit" -> "deposit"
      [] w = "Loan" -> "loan"
      [] w = "Pmt" -> "pmt"
      [] w = "Rent" -> "rent"
      [] w = "Square" -> "square"
      [] w = "Stripe" -> "stripe"
      [] w = "Uber" -> "uber"
      [] w = "Zelle" -> "zelle"
      [] OTHER -> w

\* \b\d{4,}\b
LongNumber(w) == w \in {"12345"}

\* [-/#*]+
Separator(w) == w \in {"-", "/", "#", "*"}

DescRank(d) == CHOOSE i \in 1..Len(DescTable) : DescTable[i].desc = d

RECURSIVE NormalizeToks(_)
NormalizeToks(ws) ==
    IF ws = <<>> THEN <<>>
    ELSE IF LongNumber(Head(ws)) \/ Separator(Head(ws)) THEN NormalizeToks(Tail(ws))
    ELSE <<Lower(Head(ws))>> \o NormalizeToks(Tail(ws))

\* the normalized description as its words, joined by single spaces
_normalize_desc(d) == NormalizeToks(DescTable[DescRank(d)].toks)

RECURSIVE NormLen(_)
\* len(n)
NormLen(n) ==
    IF n = <<>> THEN 0
    ELSE Len(Head(n)) + (IF Tail(n) = <<>> THEN 0 ELSE 1 + NormLen(Tail(n)))

Generic == {<<"deposit">>, <<"pos">>, <<"ach">>, <<"online", "transfer">>}

Skipped(n) == NormLen(n) < 4 \/ n \in Generic

WordRank(w) == CHOOSE i \in 1..Len(Lexicon) : Lexicon[i] = w

RECURSIVE NormBefore(_, _)
\* str order of two normalized descriptions
NormBefore(a, b) ==
    IF a = <<>> THEN b # <<>>
    ELSE IF b = <<>> THEN FALSE
    ELSE IF Head(a) = Head(b) THEN NormBefore(Tail(a), Tail(b))
    ELSE WordRank(Head(a)) < WordRank(Head(b))

RECURSIVE Normalized(_)
\* (n, t.dt) for each transaction whose normalized description is kept
Normalized(ts) ==
    IF ts = <<>> THEN <<>>
    ELSE LET n == _normalize_desc(Head(ts).desc)
         IN (IF Skipped(n) THEN <<>> ELSE <<[n |-> n, dt |-> Head(ts).dt]>>)
            \o Normalized(Tail(ts))

RECURSIVE GroupDates(_, _)
\* groups[n]: the dates of the transactions normalized to n, in list order
GroupDates(ns, n) ==
    IF ns = <<>> THEN <<>>
    ELSE (IF Head(ns).n = n THEN <<Head(ns).dt>> ELSE <<>>) \o GroupDates(Tail(ns), n)

RECURSIVE SortAscending(_)
\* ds.sort()
SortAscending(s) ==
    IF s = <<>> THEN <<>>
    ELSE LET rest == SortAscending(Tail(s))
             k == Cardinality({i \in 1..Len(rest) : rest[i] <= Head(s)})
         IN InsertAt(rest, Head(s), k)

RECURSIVE Gaps(_)
\* [(ds[i] - ds[i-1]).days for i in range(1, len(ds))]
Gaps(ds) ==
    IF Len(ds) < 2 THEN <<>>
    ELSE <<ds[2] - ds[1]>> \o Gaps(Tail(ds))

\* twice statistics.median of a non-empty list
Median2(gaps) ==
    LET s == SortAscending(gaps)
        n == Len(s)
    IN IF n % 2 = 1 THEN 2 * s[(n + 1) \div 2] ELSE s[n \div 2] + s[n \div 2 + 1]

\* the same bands on the mean gap, in 1/10 day
CadenceByMean(ds) ==
    IF Len(ds) < 3 THEN ""
    ELSE LET gaps == Gaps(SortAscending(ds))
             m10 == (10 * SumSeq(gaps)) \div Len(gaps)
         IN IF 8 <= m10 /\ m10 <= 13 THEN "daily"
            ELSE IF 55 <= m10 /\ m10 <= 85 THEN "weekly"
            ELSE ""

\* "daily", "weekly" or "" for one group
Cadence(ds) ==
    IF Len(ds) < 3 THEN ""
    ELSE LET med2 == Median2(Gaps(SortAscending(ds)))
         IN IF 8 * 2 <= med2 * 10 /\ med2 * 10 <= 13 * 2 THEN "daily"
            ELSE IF 55 * 2 <= med2 * 10 /\ med2 * 10 <= 85 * 2 THEN "weekly"
            ELSE ""

RECURSIVE ReverseSorted(_)
ReverseSorted(S) ==
    IF S = {} THEN <<>>
    ELSE LET m == CHOOSE a \in S : \A b \in S \ {a} : NormBefore(b, a)
         IN <<m>> \o ReverseSorted(S \ {m})

RECURSIVE SortedNorms(_)
\* list(set(lst)) sorted
SortedNorms(S) ==
    IF S = {} THEN <<>>
    ELSE LET m == CHOOSE a \in S : \A b \in S \ {a} : NormBefore(a, b)
         IN <<m>> \o SortedNorms(S \ {m})

KeepAll(S) == SortedNorms(S)

TopPositions == 5

\* topk: the first five of the sorted distinct descriptions
topk(S) ==
    LET lst == SortedNorms(S)
    IN SubSeq(lst, 1, Min(TopPositions, Len(lst)))

\* the keys of groups
GroupKeys(ns) == {ns[i].n : i \in 1..Len(ns)}

RECURSIVE CadenceOfKeys(_, _)
\* (desc, cadence) for each group
CadenceOfKeys(ns, keys) ==
    IF keys = {} THEN {}
    ELSE LET n == CHOOSE k \in keys : TRUE
         IN {<<n, Cadence(GroupDates(ns, n))>>} \cup CadenceOfKeys(ns, keys \ {n})

Listed(cs, cadence) == topk({c[1] : c \in {c \in cs : c[2] = cadence}})

\* the two lists, from the groups
Cadences(cs) == [daily |-> Listed(cs, "daily"), weekly |-> Listed(cs, "weekly")]

PositionsOf(ns) == Cadences(CadenceOfKeys(ns, GroupKeys(ns)))

detect_positions(ts) == PositionsOf(Normalized(ts))

\* the dates one description is seen on: never or four Mondays; three days
\* running is one of the irregular schedules below
Weekly == <<1, 8, 15, 22>>
Daily == <<1, 2, 3>>
Schedules == {<<>>, Weekly}

RECURSIVE TxnsOn(_, _, _)
\* the transactions of day dt in description order, from description i on
TxnsOn(sched, dt, i) ==
    IF i > Len(sched) THEN <<>>
    ELSE (IF \E k \in 1..Len(sched[i]) : sched[i][k] = dt
          THEN <<[dt |-> dt, desc |-> DescTable[i].desc, amount |-> -100]>>
          ELSE <<>>) \o TxnsOn(sched, dt, i + 1)

\* the days of the schedules, in date order
ScheduleDays == Weekly

RECURSIVE TxnsFrom(_, _)
\* the ledger in (dt, desc) order from the k-th schedule day on
TxnsFrom(sched, k) ==
    IF k > Len(ScheduleDays) THEN <<>>
    ELSE TxnsOn(sched, ScheduleDays[k], 1) \o TxnsFrom(sched, k + 1)

\* Irregular schedules for a few descriptions: two occurrences only, a missed
\* day, a day seen twice, gaps with a median of 1.5, 3, 5.5 and 8.5 days
MaxIrregular == 3

Irregular == {<<>>, <<1, 2>>, Daily, <<1, 2, 3, 5>>, <<1, 1, 2, 3>>, <<1, 2, 4>>,
              <<1, 4, 7>>, Weekly, <<1, 6, 12>>, <<1, 9, 18>>}

\* "Rent", "ADP PAYROLL #12345", "ADP Payroll", "Loan Pmt", "Deposit"
IrregularDescs == <<6, 1, 2, 5, 4>>

LastDay == 22

RECURSIVE Copies(_, _)
Copies(t, n) == IF n = 0 THEN <<>> ELSE <<t>> \o Copies(t, n - 1)

RECURSIVE LedgerOn(_, _, _)
\* the transactions of day dt in description order, a day seen twice included
LedgerOn(sched, dt, i) ==
    IF i > Len(DescTable) THEN <<>>
    ELSE Copies([dt |-> dt, desc |-> DescTable[i].desc, amount |-> -100],
                Cardinality({k \in 1..Len(sched[i]) : sched[i][k] = dt}))
         \o LedgerOn(sched, dt, i + 1)

RECURSIVE LedgerFrom(_, _)
LedgerFrom(sched, dt) ==
    IF dt > LastDay THEN <<>> ELSE LedgerOn(sched, dt, 1) \o LedgerFrom(sched, dt + 1)

\* the schedule of every description, from the schedules of the first n of
\* IrregularDescs
Spread(pick, n) ==
    [i \in 1..Len(DescTable) |->
        IF \E k \in 1..n : IrregularDescs[k] = i
        THEN pick[CHOOSE k \in 1..n : IrregularDescs[k] = i] ELSE <<>>]

InitPositions ==
    /\ \/ \E sched \in [Descs -> Schedules] : txns = TxnsFrom(sched, 1)
       \/ \E pick \in [1..Min(MaxIrregular, Len(IrregularDescs)) -> Irregular] :
              txns = LedgerFrom(Spread(pick, Min(MaxIrregular, Len(IrregularDescs))), 1)
    /\ opening = None
    /\ period = None
    /\ daily = <<>>
    /\ negDays = 0
    /\ lpc = "parsed"
    /\ stmt = <<>>
    /\ filename = None
    /\ monthly = NoCounts
    /\ positions = NoPositions
    /\ month = ""

\* daily_pos, weekly_pos = detect_positions(txns)
DetectPositions ==
    /\ lpc = "parsed"
    /\ positions' = detect_positions(txns)
    /\ lpc' = "positions"
    /\ UNCHANGED <<txns, opening, period, daily, negDays, stmt, filename, monthly, month>>
    /\ UNCHANGED <<fxVars, acqVars, ocrVars, revVars, sendVars, ingestVars>>

NextPositions == DetectPositions

-----------------------------------------------------------------------------
(* parse_transactions.  A cleaned statement line is a record:                *)
(*   form   "plain" (date, description, amount), "flagged" (year-less date,  *)
(*          description, amount, CR/DR), "opening" (a beginning-balance      *)
(*          line) or "other"                                                 *)
(*   ok     dateparser.parse returned a date;  y, m, d  that date            *)
(*   has4   the date text holds a run of four digits                         *)
(*   desc, amount, flag   the other groups of the match                      *)

MaxStmtLines == 3

\* the year dateparser gives a date written without one
ThisYear == 2026

StmtLine(form, ok, y, m, d, has4, desc, amount, flag) ==
    [form |-> form, ok |-> ok, y |-> y, m |-> m, d |-> d, has4 |-> has4,
     desc |-> desc, amount |-> amount, flag |-> flag]

StmtLines == {
    StmtLine("plain",   TRUE,  2025,     3,  5,  TRUE,  "Rent",    -100, ""),
    StmtLine("plain",   TRUE,  ThisYear, 3,  4,  FALSE, "Uber",    40,   ""),
    StmtLine("plain",   TRUE,  ThisYear, 3,  4,  FALSE, "Deposit", 40,   ""),
    StmtLine("flagged", TRUE,  ThisYear, 12, 30, FALSE, "ATM",     100,  "DR"),
    StmtLine("plain",   TRUE,  2024,     2,  29, FALSE, "Square",  40,   ""),
    StmtLine("plain",   FALSE, 0,        0,  0,  FALSE, "Rent",    40,   ""),
    StmtLine("opening", FALSE, 0,        0,  0,  FALSE, "",        20,   ""),
    StmtLine("other",   FALSE, 0,        0,  0,  FALSE, "",        0,    "") }

\* what month_from_period found: nothing, March 2025, February 2024
StmtPeriods == {
    None,
    Some([start |-> ToOrdinal(2025, 3, 1), end |-> ToOrdinal(2025, 3, 31)]),
    Some([start |-> ToOrdinal(2024, 2, 1), end |-> ToOrdinal(2024, 2, 29)]) }

Abs(x) == IF x < 0 THEN -x ELSE x

\* amt = -abs(amt) if flag == "DR" else abs(amt), on the flagged form only
SignedAmount(ln) ==
    IF ln.form # "flagged" THEN ln.amount
    ELSE IF ln.flag = "DR" THEN -Abs(ln.amount) ELSE Abs(ln.amount)

\* the year of the transaction: d2.year when a period is known and the date
\* text has no four-digit run
TxnYear(ln, per) == IF per # <<>> /\ ~ln.has4 THEN YearOf(per[1].end) ELSE ln.y

\* dt.replace(year=...) raises ValueError for February 29 of a common year
ReplaceRaises(ln, per) ==
    /\ ln.form \in {"plain", "flagged"}
    /\ ln.ok
    /\ ln.m = 2 /\ ln.d = 29
    /\ ~IsLeap(TxnYear(ln, per))

RECURSIVE MatchedTxns(_, _)
\* the transactions appended by the loop over the lines, in text order
MatchedTxns(ls, per) ==
    IF ls = <<>> THEN <<>>
    ELSE (IF Head(ls).form \in {"plain", "flagged"} /\ Head(ls).ok
          THEN <<[dt |-> ToOrdinal(TxnYear(Head(ls), per), Head(ls).m, Head(ls).d),
                  desc |-> Head(ls).desc,
                  amount |-> SignedAmount(Head(ls))]>>
          ELSE <<>>) \o MatchedTxns(Tail(ls), per)

\* the sort key (t.dt, t.desc)
TxnBefore(a, b) ==
    \/ a.dt < b.dt
    \/ a.dt = b.dt /\ DescRank(a.desc) < DescRank(b.desc)

KeepTextOrder(ts) == ts

RECURSIVE SortTxns(_)
\* txns.sort(key=lambda t: (t.dt, t.desc)), a stable sort
SortTxns(ts) ==
    IF ts = <<>> THEN <<>>
    ELSE LET rest == SortTxns(Tail(ts))
             k == Cardinality({i \in 1..Len(rest) : TxnBefore(rest[i], Head(ts))})
         IN InsertAt(rest, Head(ts), k)

RECURSIVE OpeningOf(_, _)
\* the last beginning-balance line of lines[:120]
OpeningOf(ls, found) ==
    IF ls = <<>> THEN found
    ELSE OpeningOf(Tail(ls), IF Head(ls).form = "opening" THEN Some(Head(ls).amount) ELSE found)

\* [raised, txns, opening]
parse_transactions(ls, per) ==
    [raised  |-> \E i \in 1..Len(ls) : ReplaceRaises(ls[i], per),
     txns    |-> SortTxns(MatchedTxns(ls, per)),
     opening |-> OpeningOf(SubSeq(ls, 1, Min(Len(ls), 120)), None)]

InitParse ==
    /\ stmt \in SeqsUpTo(StmtLines, MaxStmtLines)
    /\ filename = None
    /\ monthly = NoCounts
    /\ period \in StmtPeriods
    /\ txns = <<>>
    /\ opening = None
    /\ daily = <<>>
    /\ negDays = 0
    /\ lpc = "text"
    /\ positions = NoPositions
    /\ month = ""

\* txns, opening, ending = parse_transactions(text, period)
ParseTransactions ==
    /\ lpc = "text"
    /\ \E r \in {parse_transactions(stmt, period)} :
        IF r.raised
        THEN lpc' = "raised" /\ UNCHANGED <<txns, opening>>
        ELSE lpc' = "parsed" /\ txns' = r.txns /\ opening' = r.opening
    /\ UNCHANGED <<period, daily, negDays, stmt, filename, monthly, positions, month>>
    /\ UNCHANGED <<fxVars, acqVars, ocrVars, revVars, sendVars, ingestVars>>

NextParse == ParseTransactions

-----------------------------------------------------------------------------
(* month_from_period.  A line of the statement text is a record of what the  *)
(* stages find on it; a date is [y, m, d]:                                   *)
(*   a      the "statement period|cycle d/d/y to d/d/y" match of stage A:    *)
(*          <<[ok, d1, d2]>>, ok FALSE when dateparser raises on it          *)
(*   b      the match of one of the four patterns of _parse_period_variants: *)
(*          <<[pat, ok, d1, d2]>>                                            *)
(*   c      the "(for|ending|period) Month YYYY" match: <<[ok, y, m]>>       *)
(*   dates  the DATE_Y_PAT tokens in order, <<>> for one dateparser rejects  *)
(* The filename is <<>> or the three numbers of its date, <<[y, mo, dd]>>.   *)

Ymd(y, m, d) == [y |-> y, m |-> m, d |-> d]
Ord(dt) == ToOrdinal(dt.y, dt.m, dt.d)
NoDate == Ymd(0, 0, 0)

PeriodLine(a, b, c, dates) == [a |-> a, b |-> b, c |-> c, dates |-> dates]

PeriodLines == {
    \* "Statement period 03/01/2025 to 03/31/2025"
    PeriodLine(Some([ok |-> TRUE, d1 |-> Ymd(2025, 3, 1), d2 |-> Ymd(2025, 3, 31)]),
               Some([pat |-> 1, ok |-> TRUE, d1 |-> Ymd(2025, 3, 1), d2 |-> Ymd(2025, 3, 31)]),
               None, <<Some(Ymd(2025, 3, 1)), Some(Ymd(2025, 3, 31))>>),
    \* "Statement cycle 13/45/2025 - 03/31/2025"
    PeriodLine(Some([ok |-> FALSE, d1 |-> NoDate, d2 |-> NoDate]),
               Some([pat |-> 1, ok |-> FALSE, d1 |-> NoDate, d2 |-> NoDate]),
               None, <<None, Some(Ymd(2025, 3, 31))>>),
    \* "June 1, 2025 through June 30, 2025"
    PeriodLine(None,
               Some([pat |-> 3, ok |-> TRUE, d1 |-> Ymd(2025, 6, 1), d2 |-> Ymd(2025, 6, 30)]),
               None, <<>>),
    \* "06/30/2025 to 06/01/2025"
    PeriodLine(None,
               Some([pat |-> 1, ok |-> TRUE, d1 |-> Ymd(2025, 6, 30), d2 |-> Ymd(2025, 6, 1)]),
               None, <<Some(Ymd(2025, 6, 30)), Some(Ymd(2025, 6, 1))>>),
    \* "For the month ending December 2024"
    PeriodLine(None, None, Some([ok |-> TRUE, y |-> 2024, m |-> 12]), <<>>),
    \* "01/15/2026 Rent -100.00"
    PeriodLine(None, None, None, <<Some(Ymd(2026, 1, 15))>>),
    \* "Page 1 of 3"
    PeriodLine(None, None, None, <<>>) }

FileNames == {
    None,
    Some([y |-> 2025, mo |-> 3, dd |-> 31]),     \* "stmt_03-31-2025.pdf"
    Some([y |-> 2025, mo |-> 2, dd |-> 30]),     \* "stmt_2025-02-30.pdf"
    Some([y |-> 2025, mo |-> 13, dd |-> 1]) }    \* "stmt_13-01-2025.pdf"

Digit(n) ==
    CASE n = 0 -> "0" [] n = 1 -> "1" [] n = 2 -> "2" [] n = 3 -> "3" [] n = 4 -> "4"
      [] n = 5 -> "5" [] n = 6 -> "6" [] n = 7 -> "7" [] n = 8 -> "8" [] n = 9 -> "9"

RECURSIVE Decimal(_)
\* f"{n}"
Decimal(n) == IF n < 10 THEN Digit(n) ELSE Decimal(n \div 10) \o Digit(n % 10)

RECURSIVE Pad(_, _)
\* f"{n:0wd}"
Pad(n, w) == IF w <= 1 /\ n < 10 THEN Digit(n) ELSE Pad(n \div 10, w - 1) \o Digit(n % 10)

Unpadded(y, m) == Decimal(y) \o "-" \o Decimal(m)

\* f"{y:04d}-{m:02d}"
YearMonth(y, m) == Pad(y, 4) \o "-" \o Pad(m, 2)

\* date(y + (m // 12), (m % 12) + 1, 1) - timedelta(days=1)
MonthEnd(y, m) == ToOrdinal(y + (m \div 12), (m % 12) + 1, 1) - 1

DaysIn(y, m) == MonthEnd(y, m) - ToOrdinal(y, m, 1) + 1

\* date(y, mo, dd) does not raise
ValidDate(y, mo, dd) ==
    /\ 1 <= y /\ y <= 9999
    /\ 1 <= mo /\ mo <= 12
    /\ 1 <= dd /\ dd <= DaysIn(y, mo)

\* (label, d1, d2) of a range
RangeResult(d1, d2) ==
    Some([label |-> YearMonth(d2.y, d2.m), start |-> Ord(d1), end |-> Ord(d2)])

\* (label, d1, d_end) of the month of a date
WholeMonth(y, m) ==
    Some([label |-> YearMonth(y, m), start |-> ToOrdinal(y, m, 1), end |-> MonthEnd(y, m)])

\* (A) the first "statement period" match, unless dateparser raises on it
ResultA(text) ==
    LET r == FirstMatch(text, LAMBDA l : l.a # <<>>, LAMBDA l : l.a)
    IN IF r # None /\ r[1].ok THEN RangeResult(r[1].d1, r[1].d2) ELSE None

\* one pattern of _parse_period_variants: its first match, kept if d1 <= d2
Variant(text, pat) ==
    LET r == FirstMatch(text, LAMBDA l : l.b # <<>> /\ l.b[1].pat = pat, LAMBDA l : l.b)
    IN IF r # None /\ r[1].ok /\ Ord(r[1].d1) <= Ord(r[1].d2)
       THEN RangeResult(r[1].d1, r[1].d2) ELSE None

_parse_period_variants(text) ==
    OrElse(Variant(text, 1), OrElse(Variant(text, 2), OrElse(Variant(text, 3), Variant(text, 4))))

\* (C) the first "ending Month YYYY" match
ResultC(text) ==
    LET r == FirstMatch(text, LAMBDA l : l.c # <<>>, LAMBDA l : l.c)
    IN IF r # None /\ r[1].ok THEN WholeMonth(r[1].y, r[1].m) ELSE None

\* (D) the month of the latest dated token
ResultD(text) ==
    LET ds == UNION { { text[i].dates[j][1] : j \in {j \in 1..Len(text[i].dates) :
                                                   text[i].dates[j] # <<>>} } :
                      i \in 1..Len(text) }
    IN IF ds = {} THEN None
       ELSE LET d2 == CHOOSE d \in ds : \A e \in ds : Ord(e) <= Ord(d)
            IN WholeMonth(d2.y, d2.m)

_month_from_filename(fn) ==
    IF fn # None /\ ValidDate(fn[1].y, fn[1].mo, fn[1].dd)
    THEN WholeMonth(fn[1].y, fn[1].mo) ELSE None

month_from_period(text, fn) ==
    OrElse(ResultA(text),
    OrElse(_parse_period_variants(text),
    OrElse(ResultC(text),
    OrElse(ResultD(text), _month_from_filename(fn)))))

SENTINEL == "[unknown]"

InitMonth ==
    /\ stmt \in SeqsUpTo(PeriodLines, MaxStmtLines)
    /\ filename \in FileNames
    /\ monthly = NoCounts
    /\ txns = <<>>
    /\ opening = None
    /\ period = None
    /\ daily = <<>>
    /\ negDays = 0
    /\ lpc = "text"
    /\ positions = NoPositions
    /\ month = ""

\* period = month_from_period(text, filename=filename)
\* month_label = period[0] if period else "[unknown]"
MonthLabel ==
    /\ lpc = "text"
    /\ \E r \in {month_from_period(stmt, filename)} :
        /\ period' = (IF r = None THEN None ELSE Some([start |-> r[1].start, end |-> r[1].end]))
        /\ month' = (IF r = None THEN SENTINEL ELSE r[1].label)
    /\ lpc' = "labelled"
    /\ UNCHANGED <<txns, opening, daily, negDays, stmt, filename, monthly, positions>>
    /\ UNCHANGED <<fxVars, acqVars, ocrVars, revVars, sendVars, ingestVars>>

NextMonth == MonthLabel

-----------------------------------------------------------------------------
(* compute_monthly_counts_and_deposits: three dicts keyed by month_key        *)

MaxMonthlyTxns == 3

\* date.fromordinal(n).month
MonthOf(n) ==
    CHOOSE m \in 1..12 : ToOrdinal(YearOf(n), m, 1) <= n /\ n <= MonthEnd(YearOf(n), m)

\* month_key(d)
month_key(d) == YearMonth(YearOf(d), MonthOf(d))

EXCLUDE_DEPOSIT_KEYWORDS == {"zelle"}

\* any(x in t.desc.lower() for x in EXCLUDE_DEPOSIT_KEYWORDS), on the words of
\* the description
Excluded(desc) ==
    \E k \in 1..Len(DescTable[DescRank(desc)].toks) :
        Lower(DescTable[DescRank(desc)].toks[k]) \in EXCLUDE_DEPOSIT_KEYWORDS

\* d[k] += x on a defaultdict
AddTo(d, k, x) == IF k \in DOMAIN d THEN [d EXCEPT ![k] = @ + x] ELSE d @@ (k :> x)

\* the body of the loop for one transaction
CountTxn(c, t, k) ==
    IF t.amount < 0
    THEN [c EXCEPT !.debit_counts = AddTo(@, k, 1)]
    ELSE IF t.amount > 0
    THEN [c EXCEPT !.credit_counts = AddTo(@, k, 1),
                   !.monthly_deposits = IF Excluded(t.desc) THEN @ ELSE AddTo(@, k, t.amount)]
    ELSE c

RECURSIVE compute_monthly_counts_and_deposits(_, _)
\* c is the three dicts so far
compute_monthly_counts_and_deposits(ts, c) ==
    IF ts = <<>> THEN c
    ELSE compute_monthly_counts_and_deposits(Tail(ts), CountTxn(c, Head(ts), month_key(Head(ts).dt)))

MonthlyDates == {ToOrdinal(2025, 1, 15), ToOrdinal(2025, 2, 1), ToOrdinal(2026, 1, 15)}

MonthlyTxns ==
    {ts \in SeqsUpTo([dt : MonthlyDates, desc : {"Rent", "Zelle"}, amount : {-100, 0, 40}],
                     MaxMonthlyTxns) :
        \A i \in 1..Len(ts) : \A j \in i..Len(ts) : ~TxnBefore(ts[j], ts[i])}

InitMonthly ==
    /\ txns \in MonthlyTxns
    /\ opening = None
    /\ period = None
    /\ daily = <<>>
    /\ negDays = 0
    /\ lpc = "parsed"
    /\ stmt = <<>>
    /\ filename = None
    /\ monthly = NoCounts
    /\ positions = NoPositions
    /\ month = ""

\* debits, credits, monthly_deposits = compute_monthly_counts_and_deposits(txns)
ComputeMonthly ==
    /\ lpc = "parsed"
    /\ monthly' = compute_monthly_counts_and_deposits(txns, NoCounts)
    /\ lpc' = "counted"
    /\ UNCHANGED <<txns, opening, period, daily, negDays, stmt, filename, positions, month>>
    /\ UNCHANGED <<fxVars, acqVars, ocrVars, revVars, sendVars, ingestVars>>

NextMonthly == ComputeMonthly

-----------------------------------------------------------------------------
(* pick_avg_revenue: monthly_deposits is the dict's values in insertion      *)
(* order (whole dollars), the result is in cents                             *)

MaxMonths == 4

DepositTotals == {50, 100, 200, 300}
RuleStates == {None, Some(""), Some("NY"), Some("ny"), Some("CA"), Some("TX")}
BEST3 == {"NY", "CA"}

\* str.upper on the states drawn
Upper(s) == IF s = "ny" THEN "NY" ELSE s

KeepOrder(vals) == vals

RECURSIVE SortDescending(_)
\* vals.sort(reverse=True)
SortDescending(vals) ==
    IF vals = <<>> THEN <<>>
    ELSE InsertAt(SortDescending(Tail(vals)), Head(vals),
             Cardinality({ j \in 1..(Len(vals) - 1) : SortDescending(Tail(vals))[j] > Head(vals) }))

\* top = vals[:3] if len(vals) >= 3 else vals
Top3(vals) == IF Len(vals) >= 3 THEN SubSeq(vals, 1, 3) ELSE vals

\* round(sum(v)/len(v), 2)
Average(v) == RoundDiv(SumSeq(v) * 100, Len(v))

\* state and state.upper() in ("NY","CA"); the empty string is falsy
UsesBest3(st) == st # <<>> /\ st[1] # "" /\ Upper(st[1]) \in BEST3

pick_avg_revenue(deposits, st) ==
    IF deposits = <<>> THEN None
    ELSE IF UsesBest3(st) THEN Some(Average(Top3(SortDescending(deposits))))
    ELSE Some(Average(deposits))

InitRevenue ==
    /\ monthly_deposits \in SeqsUpTo(DepositTotals, MaxMonths)
    /\ state \in RuleStates
    /\ avgRevenue = None
    /\ rpc = "aggregated"

\* avg_revenue = pick_avg_revenue(monthly_deposits, state)
PickAvgRevenue ==
    /\ rpc = "aggregated"
    /\ avgRevenue' = pick_avg_revenue(monthly_deposits, state)
    /\ rpc' = "done"
    /\ UNCHANGED <<monthly_deposits, state>>
    /\ UNCHANGED <<fxVars, ledgerVars, acqVars, ocrVars, sendVars, ingestVars>>

NextRevenue == PickAvgRevenue

-----------------------------------------------------------------------------
(* Text acquisition: extract_fields_from_bytes (path "application") and      *)
(* read_pdf_text_from_bytes (path "statement").  doc records what each stage *)
(* does on this document: native is what pdfplumber does, raster what        *)
(* convert_from_bytes does, pages what the per-page stages do.               *)

MaxPages == 2

Paths == {"application", "statement"}
\* what pdfplumber does: raises, or yields native text of len characters
\* (after the join and strip)
NativeOutcome(out, len) == [out |-> out, len |-> len]
NativeOutcomes ==
    {NativeOutcome("raises", 0)} \cup {NativeOutcome("ok", n) : n \in {0, 299, 300, 999, 1000}}
RasterOutcomes == {"raises", "ok"}

PageKind(pre, tess, tlen, paddle, plen) ==
    [pre |-> pre, tess |-> tess, tlen |-> tlen, paddle |-> paddle, plen |-> plen]

\* pre: preprocess_for_ocr; tess: pytesseract.image_to_string, tlen the length
\* of its stripped output; paddle: what paddle_ocr_page would do on the page
\* (unavailable: the import fails and "" is returned), plen the length of its
\* output
PageKinds ==
    { PageKind("raises", "ok", 100, "unavailable", 0),
      PageKind("ok", "raises", 0, "unavailable", 0),
      PageKind("ok", "ok", 100, "ok", 500),
      PageKind("ok", "ok", 99, "unavailable", 0),
      PageKind("ok", "ok", 99, "raises", 0),
      PageKind("ok", "ok", 99, "ok", 98),
      PageKind("ok", "ok", 99, "ok", 99),
      PageKind("ok", "ok", 99, "ok", 100) }

\* a page text: the engine whose output it is, and its length
PageOutput(engine, len) == [engine |-> engine, len |-> len]

Raised == PageOutput("<raised>", 0)

\* alt = paddle_ocr_page(img); if len(alt) > len(txt): txt = alt
PaddleOnTie(k) ==
    CASE k.paddle = "unavailable" -> PageOutput("tesseract", k.tlen)
      [] k.paddle = "raises" -> Raised
      [] k.paddle = "ok" ->
            IF k.plen >= k.tlen THEN PageOutput("paddle", k.plen) ELSE PageOutput("tesseract", k.tlen)

WithPaddle(k) ==
    CASE k.paddle = "unavailable" -> PageOutput("tesseract", k.tlen)
      [] k.paddle = "raises" -> Raised
      [] k.paddle = "ok" ->
            IF k.plen > k.tlen THEN PageOutput("paddle", k.plen) ELSE PageOutput("tesseract", k.tlen)

\* if len(txt) < 100: the page reaches paddle_ocr_page
CallsPaddle(pth, k) ==
    pth = "application" /\ k.pre = "ok" /\ k.tess = "ok" /\ k.tlen < 100

\* the body of "for img in pages" in extract_fields_from_bytes
ApplicationPage(k) ==
    IF k.pre = "raises" \/ k.tess = "raises" THEN Raised
    ELSE IF k.tlen < 100 THEN WithPaddle(k)
    ELSE PageOutput("tesseract", k.tlen)

\* pytesseract.image_to_string(img, ...) in read_pdf_text_from_bytes
StatementPage(k) == IF k.tess = "raises" THEN Raised ELSE PageOutput("tesseract", k.tlen)

PageText(pth, k) == IF pth = "application" THEN ApplicationPage(k) ELSE StatementPage(k)

\* len(native_text): "" when pdfplumber raised
NativeLen(d) == IF d.native.out = "raises" THEN 0 ELSE d.native.len

\* use_ocr = (len(native_text) < 1000); if len(full) >= 300: return full, False
use_ocr(pth, d) == IF pth = "application" THEN NativeLen(d) < 1000 ELSE NativeLen(d) < 300

InitAcquisition ==
    /\ path \in Paths
    /\ doc \in [native : NativeOutcomes, raster : RasterOutcomes,
                pages : SeqsUpTo(PageKinds, MaxPages)]
    /\ acqPc = "native"
    /\ pageNo = 0
    /\ texts = <<>>
    /\ textSource = "none"
    /\ paddleCalled = {}

\* the try/except around pdfplumber: a raise leaves the native text empty
NativeText ==
    /\ acqPc = "native"
    /\ IF ~use_ocr(path, doc)
       THEN /\ texts' = <<PageOutput("native", NativeLen(doc))>>
            /\ textSource' = "native"
            /\ acqPc' = "fields"
       ELSE /\ acqPc' = "rasterize"
            /\ UNCHANGED <<texts, textSource>>
    /\ UNCHANGED <<path, doc, pageNo, paddleCalled>>
    /\ UNCHANGED <<fxVars, ledgerVars, ocrVars, revVars, sendVars, ingestVars>>

\* pages = convert_from_bytes(pdf_bytes, dpi=...)
Rasterize ==
    /\ acqPc = "rasterize"
    /\ acqPc' = (IF doc.raster = "raises" THEN "raised" ELSE "ocr")
    /\ pageNo' = 1
    /\ UNCHANGED <<path, doc, texts, textSource, paddleCalled>>
    /\ UNCHANGED <<fxVars, ledgerVars, ocrVars, revVars, sendVars, ingestVars>>

\* one page of the OCR loop
OcrPage ==
    /\ acqPc = "ocr"
    /\ pageNo <= Len(doc.pages)
    /\ paddleCalled' = (IF CallsPaddle(path, doc.pages[pageNo])
                        THEN paddleCalled \cup {pageNo} ELSE paddleCalled)
    /\ \E txt \in {PageText(path, doc.pages[pageNo])} :
          IF txt = Raised
          THEN /\ acqPc' = "raised"
               /\ UNCHANGED <<pageNo, texts>>
          ELSE /\ texts' = Append(texts, txt)
               /\ pageNo' = pageNo + 1
               /\ UNCHANGED acqPc
    /\ UNCHANGED <<path, doc, textSource>>
    /\ UNCHANGED <<fxVars, ledgerVars, ocrVars, revVars, sendVars, ingestVars>>

\* text = "\n".join(texts); source = "ocr"
JoinTexts ==
    /\ acqPc = "ocr"
    /\ pageNo > Len(doc.pages)
    /\ textSource' = "ocr"
    /\ acqPc' = "fields"
    /\ UNCHANGED <<path, doc, pageNo, texts, paddleCalled>>
    /\ UNCHANGED <<fxVars, ledgerVars, ocrVars, revVars, sendVars, ingestVars>>

NextAcquisition ==
    \/ NativeText
    \/ Rasterize
    \/ OcrPage
    \/ JoinTexts

-----------------------------------------------------------------------------
(* paddle_ocr_page called by several threads of one process.  ocrHandle is   *)
(* the function attribute _ocr: 0 while the attribute is absent, else the    *)
(* number of the PaddleOCR instance it holds.                                *)

MaxThreads == 2
MaxCalls == 2

Threads == 1..MaxThreads

InitOcr ==
    /\ installed \in BOOLEAN
    /\ ocrHandle = 0
    /\ constructed = 0
    /\ tpc = [t \in Threads |-> "import"]
    /\ used = {}
    /\ callsLeft = [t \in Threads |-> MaxCalls]

\* try: from paddleocr import PaddleOCR / except Exception: return ""
ImportPaddle(t) ==
    /\ tpc[t] = "import"
    /\ callsLeft[t] > 0
    /\ IF installed
       THEN /\ tpc' = [tpc EXCEPT ![t] = "check"]
            /\ UNCHANGED callsLeft
       ELSE /\ callsLeft' = [callsLeft EXCEPT ![t] = @ - 1]
            /\ UNCHANGED tpc
    /\ UNCHANGED <<installed, ocrHandle, constructed, used>>
    /\ UNCHANGED <<fxVars, ledgerVars, acqVars, revVars, sendVars, ingestVars>>

\* if not hasattr(paddle_ocr_page, "_ocr")
CheckHandle(t) ==
    /\ tpc[t] = "check"
    /\ tpc' = [tpc EXCEPT ![t] = IF ocrHandle = 0 THEN "construct" ELSE "recognize"]
    /\ UNCHANGED <<installed, ocrHandle, constructed, used, callsLeft>>
    /\ UNCHANGED <<fxVars, ledgerVars, acqVars, revVars, sendVars, ingestVars>>

\* paddle_ocr_page._ocr = PaddleOCR(use_angle_cls=True, lang='en')
Construct(t) ==
    /\ tpc[t] = "construct"
    /\ constructed' = constructed + 1
    /\ ocrHandle' = constructed + 1
    /\ tpc' = [tpc EXCEPT ![t] = "recognize"]
    /\ UNCHANGED <<installed, used, callsLeft>>
    /\ UNCHANGED <<fxVars, ledgerVars, acqVars, revVars, sendVars, ingestVars>>

\* result = paddle_ocr_page._ocr.ocr(cv_img, cls=True)
Recognize(t) ==
    /\ tpc[t] = "recognize"
    /\ used' = used \cup {ocrHandle}
    /\ callsLeft' = [callsLeft EXCEPT ![t] = @ - 1]
    /\ tpc' = [tpc EXCEPT ![t] = "import"]
    /\ UNCHANGED <<installed, ocrHandle, constructed>>
    /\ UNCHANGED <<fxVars, ledgerVars, acqVars, revVars, sendVars, ingestVars>>

NextOcr ==
    \/ \E t \in Threads : ImportPaddle(t)
    \/ \E t \in Threads : CheckHandle(t)
    \/ \E t \in Threads : Construct(t)
    \/ \E t \in Threads : Recognize(t)

-----------------------------------------------------------------------------
(* send_emails: one POST /send against the deliveries table and the mail     *)
(* provider.  request is the JSON body, mailbox what                         *)
(* safe_get_connected_sender returns, deliveries the deliveries table,       *)
(* outbox the calls made to gmail_send / graph_send.                         *)

MaxSelected == 2

\* the entries a selected_lenders list may hold
LenderEntries == {"Acme", " ACME ", "Bolt", "Crest"}

\* (lender or "").strip()
Strip(n) == IF n = " ACME " THEN "ACME" ELSE n

\* str.lower() on the names in use
LowerName(n) ==
    CASE n \in {"Acme", "ACME", "acme"} -> "acme"
      [] n \in {"Bolt", "bolt"} -> "bolt"
      [] n \in {"Crest", "crest"} -> "crest"
      [] OTHER -> n

\* the exclude lists a request may carry
ExcludeLists == {<<>>, <<"ACME">>, <<"Crest ">>}

\* the emails book: no entry for "crest"
Recipient(key) ==
    CASE key = "acme" -> "deals@acme.com"
      [] key = "bolt" -> "uw@bolt.com"
      [] OTHER -> ""

Delivery(deal_id, lender_name, to_email, status) ==
    [deal_id |-> deal_id, lender_name |-> lender_name, to_email |-> to_email, status |-> status]

\* the deliveries table before the request: empty, or the rows of deal 7
DeliveryTables ==
    { <<>>,
      <<Delivery(7, "Bolt", "uw@bolt.com", "sent")>>,
      <<Delivery(7, "Acme", "deals@acme.com", "sent"), Delivery(7, "Bolt", "uw@bolt.com", "error")>> }

Requests ==
    [selected : SeqsUpTo(LenderEntries, MaxSelected),
     exclude : ExcludeLists,
     parent_deal_id : {None, Some(7)}]

\* what safe_get_connected_sender returns: no mailbox, or its provider
Mailboxes == {None, Some("gmail"), Some("outlook"), Some("smtp")}

\* set([(s or "").strip().lower() for s in exclude if s])
RequestExclude(req) ==
    {LowerName(Strip(req.exclude[i])) : i \in 1..Len(req.exclude)}

\* the lender names delivered under the parent deal, lower-cased
ParentNames(table, parent) ==
    {LowerName(Strip(table[i].lender_name)) : i \in {j \in 1..Len(table) : table[j].deal_id = parent}}

\* if parent_deal_id and not exclude: the parent's names, unless the read raises
ExcludeSet(req, table, readRaises) ==
    IF req.parent_deal_id # None /\ RequestExclude(req) = {}
    THEN (IF readRaises THEN {} ELSE ParentNames(table, req.parent_deal_id[1]))
    ELSE RequestExclude(req)

\* one entry of "for lender in selected": the row to record and whether a
\* mail send is attempted
SendEntry(entry, ex, provider, deal_id, sendOk) ==
    LET lname == Strip(entry)
        to_email == Recipient(LowerName(lname))
    IN  IF LowerName(lname) \in ex
        THEN [row |-> Delivery(deal_id, lname, "", "skipped"), mailed |-> FALSE]
        ELSE IF to_email = ""
        THEN [row |-> Delivery(deal_id, lname, "", "skipped"), mailed |-> FALSE]
        ELSE IF provider \in {"gmail", "outlook", "graph"}
        THEN [row |-> Delivery(deal_id, lname, to_email, IF sendOk THEN "sent" ELSE "error"),
              mailed |-> TRUE]
        ELSE [row |-> Delivery(deal_id, lname, to_email, "error"), mailed |-> FALSE]

RECURSIVE SendLoop(_, _, _, _, _, _, _)
\* the loop over selected; sends[i] is what the provider answers for entry i,
\* inserts[i] whether record_delivery returns for it (it raises otherwise,
\* which ends the request)
SendLoop(sel, i, ex, provider, deal_id, sends, inserts) ==
    IF i > Len(sel) THEN [rows |-> <<>>, mails |-> <<>>, raised |-> FALSE]
    ELSE LET e == SendEntry(sel[i], ex, provider, deal_id, sends[i])
             mail == IF e.mailed
                     THEN <<[entry |-> i, lender |-> e.row.lender_name, to |-> e.row.to_email]>>
                     ELSE <<>>
         IN  IF ~inserts[i] THEN [rows |-> <<>>, mails |-> mail, raised |-> TRUE]
             ELSE LET rest == SendLoop(sel, i + 1, ex, provider, deal_id, sends, inserts)
                  IN  [rows |-> <<e.row>> \o rest.rows,
                       mails |-> mail \o rest.mails,
                       raised |-> rest.raised]

Response(code, rows) ==
    [code |-> code, statuses |-> [i \in 1..Len(rows) |-> rows[i].status]]

InitSend ==
    /\ request \in Requests
    /\ mailbox \in Mailboxes
    /\ deliveries \in DeliveryTables
    /\ outbox = <<>>
    /\ response = None
    /\ spc = "request"

IdleSend ==
    /\ request = [selected |-> <<>>, exclude |-> <<>>, parent_deal_id |-> None]
    /\ mailbox = None
    /\ deliveries = <<>>
    /\ outbox = <<>>
    /\ response = None
    /\ spc = "idle"

\* the deal record_deal inserts gets id 8
SendEmails ==
    /\ spc = "request"
    /\ spc' = "done"
    /\ IF request.selected = <<>>
       THEN response' = Some(Response(400, <<>>)) /\ UNCHANGED <<deliveries, outbox>>
       ELSE IF mailbox = None
       THEN response' = Some(Response(403, <<>>)) /\ UNCHANGED <<deliveries, outbox>>
       ELSE \E readRaises \in BOOLEAN :
            \E sends \in [1..Len(request.selected) -> BOOLEAN] :
            \E inserts \in [1..Len(request.selected) -> BOOLEAN] :
            \E r \in {SendLoop(request.selected, 1, ExcludeSet(request, deliveries, readRaises),
                               mailbox[1], 8, sends, inserts)} :
                /\ deliveries' = deliveries \o r.rows
                /\ outbox' = r.mails
                /\ response' = Some(IF r.raised THEN Response(500, <<>>)
                                    ELSE Response(200, r.rows))
    /\ UNCHANGED <<request, mailbox>>
    /\ UNCHANGED <<fxVars, ledgerVars, acqVars, ocrVars, revVars, ingestVars>>

NextSend == SendEmails

-----------------------------------------------------------------------------
(* GmailWatcher.tick (the polling worker) and ingest_deal (the ingest-now    *)
(* route) over one decisions table.  inbox is what the mailbox holds, schema *)
(* which module created the decisions table: the worker's init_db (with      *)
(* message_id UNIQUE, thread_id and snippet) or the decisions API (without). *)

MaxIngestCalls == 3

Message(id, thread, tags, fromSelf, recent, sender, status) ==
    [id |-> id, thread |-> thread, tags |-> tags, fromSelf |-> fromSelf, recent |-> recent,
     sender |-> sender, status |-> status]

\* the messages a mailbox may hold, in the order Gmail lists them: the mail
\* sent for deal 1, a reply to it tagged #1, a mail of the same thread whose
\* subject is tagged #2, a mail tagged #1 older than 45 days
AllMessages ==
    << Message("s1", "t1", {1}, TRUE,  TRUE,  "me@broker.com", "OTHER"),
       Message("m1", "t1", {1}, FALSE, TRUE,  "uw@acme.com",   "APPROVED"),
       Message("m2", "t1", {2}, FALSE, TRUE,  "uw@bolt.com",   "DECLINED"),
       Message("m3", "t3", {1}, FALSE, FALSE, "uw@crest.com",  "STIPS_REQUIRED") >>

\* _active_deals: the sender's recent deals, ORDER BY id DESC
ActiveDeals == <<2, 1>>

\* _deliveries_for(deal_id)
DeliveriesFor(deal_id) ==
    IF deal_id = 1
    THEN <<[lender_name |-> "Acme", provider |-> "gmail", provider_msg_id |-> "s1"]>>
    ELSE <<[lender_name |-> "Bolt", provider |-> "outlook", provider_msg_id |-> "o1"],
           [lender_name |-> "Crest", provider |-> "gmail", provider_msg_id |-> ""]>>

\* self.email_book.get(frm) or frm
EmailBook(frm) == IF frm = "uw@acme.com" THEN "Acme" ELSE frm

\* gmail.search('subject:"#<deal>" newer_than:<days>d -from:<self>')
Search(box, deal_id, days) ==
    SelectSeq(AllMessages, LAMBDA m : /\ m \in box
                                      /\ deal_id \in m.tags
                                      /\ ~m.fromSelf
                                      /\ (m.recent \/ days > 45))

\* gmail.get_thread(thread_id)["messages"], without our own messages
Replies(box, thread_id) ==
    SelectSeq(AllMessages, LAMBDA m : m \in box /\ m.thread = thread_id /\ ~m.fromSelf)

Decision(deal_id, lender, status, message_id) ==
    [deal_id |-> deal_id, lender |-> lender, status |-> status, message_id |-> message_id]

RECURSIVE InsertOrReplace(_, _)
InsertOrReplace(table, row) ==
    IF table = <<>> THEN <<row>>
    ELSE IF Head(table).message_id = row.message_id THEN <<row>> \o Tail(table)
    ELSE <<Head(table)>> \o InsertOrReplace(Tail(table), row)

\* INSERT OR IGNORE INTO decisions: message_id is UNIQUE
InsertOrIgnore(table, row) ==
    IF \E i \in 1..Len(table) : table[i].message_id = row.message_id THEN table
    ELSE Append(table, row)

\* _process_message: lender = lender_hint or email_book.get(frm) or frm
ProcessMessage(table, deal_id, lender_hint, m) ==
    InsertOrIgnore(table, Decision(deal_id,
                                   IF lender_hint # "" THEN lender_hint ELSE EmailBook(m.sender),
                                   m.status, m.id))

RECURSIVE ProcessAll(_, _, _, _, _, _)
\* a loop of _process_message calls inside one try: it ends at the first
\* raise, of the Gmail API after `left` messages or of the INSERT on a table
\* without the thread_id and snippet columns
ProcessAll(table, msgs, deal_id, lender_hint, sch, left) ==
    IF msgs = <<>> \/ left = 0 \/ sch = "api" THEN [table |-> table, processed |-> 0]
    ELSE LET rest == ProcessAll(ProcessMessage(table, deal_id, lender_hint, Head(msgs)),
                                Tail(msgs), deal_id, lender_hint, sch, left - 1)
         IN  [table |-> rest.table, processed |-> rest.processed + 1]

\* Strategy 2 for one delivery: gmail only, with a sent id whose message exists
FollowThread(table, box, deal_id, deliv, sch, left) ==
    IF deliv.provider # "gmail" \/ deliv.provider_msg_id = ""
        \/ ~\E m \in box : m.id = deliv.provider_msg_id
    THEN [table |-> table, processed |-> 0]
    ELSE ProcessAll(table,
                    Replies(box, (CHOOSE m \in box : m.id = deliv.provider_msg_id).thread),
                    deal_id, deliv.lender_name, sch, left)

RECURSIVE FollowThreads(_, _, _, _, _, _)
FollowThreads(table, box, deal_id, delivs, sch, left) ==
    IF delivs = <<>> THEN [table |-> table, processed |-> 0]
    ELSE LET one == FollowThread(table, box, deal_id, Head(delivs), sch, left)
             rest == FollowThreads(one.table, box, deal_id, Tail(delivs), sch, left)
         IN  [table |-> rest.table, processed |-> one.processed + rest.processed]

\* both strategies for one deal: the subject search, then the sent threads
IngestOne(table, box, deal_id, days, sch, left1, left2) ==
    LET s1 == ProcessAll(table, Search(box, deal_id, days), deal_id, "", sch, left1)
        s2 == FollowThreads(s1.table, box, deal_id, DeliveriesFor(deal_id), sch, left2)
    IN  [table |-> s2.table, processed |-> s1.processed + s2.processed]

RECURSIVE TickDeals(_, _, _, _, _, _)
\* for d in deals
TickDeals(table, box, deals, sch, left1, left2) ==
    IF deals = <<>> THEN table
    ELSE TickDeals(IngestOne(table, box, Head(deals), 45, sch, left1, left2).table,
                   box, Tail(deals), sch, left1, left2)

\* SELECT COUNT(*) FROM decisions WHERE deal_id=?
count_decisions(table, deal_id) ==
    Cardinality({i \in 1..Len(table) : table[i].deal_id = deal_id})

\* how many messages a loop handles before the Gmail API raises (4: it does not)
Lefts == {0, 1, 4}

InitIngest ==
    /\ inbox \in SUBSET {AllMessages[i] : i \in 1..Len(AllMessages)}
    /\ schema \in {"worker", "api"}
    /\ decisions = <<>>
    /\ report = None
    /\ calls = 0

Tick ==
    /\ calls < MaxIngestCalls
    /\ calls' = calls + 1
    /\ \E left1 \in Lefts, left2 \in Lefts :
           decisions' = TickDeals(decisions, inbox, ActiveDeals, schema, left1, left2)
    /\ UNCHANGED <<inbox, schema, report>>
    /\ UNCHANGED <<fxVars, ledgerVars, acqVars, ocrVars, revVars, sendVars>>

IngestDeal ==
    /\ calls < MaxIngestCalls
    /\ calls' = calls + 1
    /\ \E deal_id \in {1, 2}, left1 \in Lefts, left2 \in Lefts :
       \E r \in {IngestOne(decisions, inbox, deal_id, 365, schema, left1, left2)} :
           /\ decisions' = r.table
           /\ report' = Some([processed |-> r.processed,
                              added |-> count_decisions(r.table, deal_id)
                                          - count_decisions(decisions, deal_id)])
    /\ UNCHANGED <<inbox, schema>>
    /\ UNCHANGED <<fxVars, ledgerVars, acqVars, ocrVars, revVars, sendVars>>

NextIngest ==
    \/ Tick
    \/ IngestDeal

-----------------------------------------------------------------------------
(* Specifications: one component runs, the others stay as constructed *)

IdleFields ==
    /\ field = "FICO"
    /\ lines = <<>>
    /\ source = "native"
    /\ layoutRes = None
    /\ textRes = None
    /\ now = ApplicationDate
    /\ hits = <<>>
    /\ best = NotFound
    /\ bestRank = 0
    /\ viaFallback = FALSE
    /\ fwaConf = 0
    /\ prevRun = <<>>
    /\ pc = "idle"

IdleLedger ==
    /\ txns = <<>>
    /\ opening = None
    /\ period = None
    /\ daily = <<>>
    /\ negDays = 0
    /\ lpc = "idle"
    /\ stmt = <<>>
    /\ filename = None
    /\ monthly = NoCounts
    /\ positions = NoPositions
    /\ month = ""

IdleAcquisition ==
    /\ path = "application"
    /\ doc = [native |-> NativeOutcome("ok", 1000), raster |-> "ok", pages |-> <<>>]
    /\ acqPc = "idle"
    /\ pageNo = 0
    /\ texts = <<>>
    /\ textSource = "none"
    /\ paddleCalled = {}

IdleOcr ==
    /\ installed = FALSE
    /\ ocrHandle = 0
    /\ constructed = 0
    /\ tpc = [t \in Threads |-> "idle"]
    /\ used = {}
    /\ callsLeft = [t \in Threads |-> 0]

IdleRevenue ==
    /\ monthly_deposits = <<>>
    /\ state = None
    /\ avgRevenue = None
    /\ rpc = "idle"

IdleIngest ==
    /\ inbox = {}
    /\ schema = "worker"
    /\ decisions = <<>>
    /\ report = None
    /\ calls = 0

Init == InitFields /\ IdleLedger /\ IdleAcquisition /\ IdleOcr /\ IdleRevenue
        /\ IdleSend /\ IdleIngest

Spec == Init /\ [][NextFields]_vars

SpecRerun == Init /\ [][NextFields \/ Rerun]_vars

LongInit == InitLongDocument /\ IdleLedger /\ IdleAcquisition /\ IdleOcr /\ IdleRevenue
        /\ IdleSend /\ IdleIngest

SpecLong == LongInit /\ [][NextLong]_vars

LedgerInit == IdleFields /\ InitLedger /\ IdleAcquisition /\ IdleOcr /\ IdleRevenue
        /\ IdleSend /\ IdleIngest

SpecLedger == LedgerInit /\ [][NextLedger]_vars

PositionsInit == IdleFields /\ InitPositions /\ IdleAcquisition /\ IdleOcr /\ IdleRevenue
        /\ IdleSend /\ IdleIngest

SpecPositions == PositionsInit /\ [][NextPositions]_vars

ParseInit == IdleFields /\ InitParse /\ IdleAcquisition /\ IdleOcr /\ IdleRevenue
        /\ IdleSend /\ IdleIngest

SpecParse == ParseInit /\ [][NextParse]_vars

MonthInit == IdleFields /\ InitMonth /\ IdleAcquisition /\ IdleOcr /\ IdleRevenue
        /\ IdleSend /\ IdleIngest

SpecMonth == MonthInit /\ [][NextMonth]_vars

MonthlyInit == IdleFields /\ InitMonthly /\ IdleAcquisition /\ IdleOcr /\ IdleRevenue
        /\ IdleSend /\ IdleIngest

SpecMonthly == MonthlyInit /\ [][NextMonthly]_vars

AcquisitionInit == IdleFields /\ IdleLedger /\ InitAcquisition /\ IdleOcr /\ IdleRevenue
        /\ IdleSend /\ IdleIngest

SpecAcquisition == AcquisitionInit /\ [][NextAcquisition]_vars

OcrInit == IdleFields /\ IdleLedger /\ IdleAcquisition /\ InitOcr /\ IdleRevenue
        /\ IdleSend /\ IdleIngest

SpecOcr == OcrInit /\ [][NextOcr]_vars

RevenueInit == IdleFields /\ IdleLedger /\ IdleAcquisition /\ IdleOcr /\ InitRevenue
        /\ IdleSend /\ IdleIngest

SpecRevenue == RevenueInit /\ [][NextRevenue]_vars

SendInit == IdleFields /\ IdleLedger /\ IdleAcquisition /\ IdleOcr /\ IdleRevenue
        /\ InitSend /\ IdleIngest

SpecSend == SendInit /\ [][NextSend]_vars

IngestInit == IdleFields /\ IdleLedger /\ IdleAcquisition /\ IdleOcr /\ IdleRevenue
        /\ IdleSend /\ InitIngest

SpecIngest == IngestInit /\ [][NextIngest]_vars

-----------------------------------------------------------------------------
(* Properties *)

\* C1: every FieldResult of extract_fields_from_bytes, at every point up to and
\* after its post-processing (business-name boosts, state evidence rewrite and
\* ZIP nudge, duration formatting), has a confidence in [0, 1], and the
\* confidence is 0 exactly when the value is None.
ConfidenceWellFormed ==
    /\ 0 <= best.confidence
    /\ best.confidence <= 100 * 100
    /\ (best.confidence = 0) <=> (best.value = None)

\* a business name whose boosts reach the 0.99 cap
BoostedNameAtCap ==
    /\ pc = "done"
    /\ field = "BusinessName"
    /\ best.value # None
    /\ fwaConf < best.confidence
    /\ best.confidence = 9900

\* C2: once rebuild_daily_balances has run with a period, the keys of the daily
\* balances are exactly the days of [period.start, period.end], for every txn
\* sequence, the empty one included.
DailyKeysArePeriod ==
    (lpc \in {"rebuilt", "done"} /\ period # None) =>
        DOMAIN daily = period[1].start .. period[1].end

\* C3: with a negative opening balance and no transactions over an n-day
\* period, count_negative_days of the rebuilt daily balances is n.
NegativeOpeningCountsEveryDay ==
    (lpc = "done" /\ txns = <<>> /\ opening # None /\ opening[1] < 0 /\ period # None) =>
        negDays = period[1].end - period[1].start + 1

\* C4: when an anchor hit yields a value, find_with_anchors returns the hit
\* of highest computed confidence among the top-8 ranked hits whose window
\* yields a value, and among hits of equal computed confidence the first in
\* rank order.
HighestConfidenceFirstKept ==
    (pc \in {"post", "nudge", "done"} /\ ~viaFallback) =>
        LET yields == { i \in 1..Min(Len(hits), TopK) :
                          Extract(field, lines, window(lines, hits[i].idx), now) # None }
            conf(i) == HitConfidence(conf_base(field), hits[i].score)
        IN  /\ bestRank \in yields
            /\ \A i \in yields :
                  \/ conf(i) < conf(bestRank)
                  \/ conf(i) = conf(bestRank) /\ bestRank <= i

\* C5 (as stated): a field whose value came from the head/tail fallback ends
\* with confidence 0.45, for every field.
FallbackAlwaysFixed ==
    (pc = "done" /\ viaFallback /\ fwaConf > 0) => best.confidence = FallbackConfidence

\* C5 (amended): find_with_anchors returns a fallback value with confidence
\* 0.45; the final confidence is still 0.45 for FICO, Industry and
\* LengthOfOwnership, and for State unless the rewritten evidence carries a
\* city,st,zip / zip-only / block tag, in which case the ZIP nudge makes it
\* 0.84; for BusinessName the boost step raises it to at least 0.70.
FallbackConfidenceByField ==
    (pc = "done" /\ viaFallback /\ fwaConf > 0) =>
        /\ fwaConf = FallbackConfidence
        /\ field \in {"FICO", "Industry", "LengthOfOwnership"} =>
              best.confidence = FallbackConfidence
        /\ field = "State" =>
              best.confidence = (IF ZipTied(best.evidence.line) THEN 8400
                                 ELSE FallbackConfidence)
        /\ field = "BusinessName" =>
              /\ best.confidence >= 7000
              /\ best.confidence <= 9900

\* a State found by the fallback, rewritten to block evidence and nudged
FallbackStateNudged ==
    /\ pc = "done"
    /\ field = "State"
    /\ viaFallback
    /\ fwaConf = FallbackConfidence
    /\ best.evidence.anchor = "address-aware"
    /\ best.confidence = 8400

\* C6: acquisition never propagates a stage failure: no stage's exception
\* leaves extract_fields_from_bytes or read_pdf_text_from_bytes.
StageFailureNeverPropagates == acqPc # "raised"

\* C7: for every interleaving of calls to paddle_ocr_page, the PaddleOCR
\* constructor runs at most once and every call uses the same handle.
EngineConstructedOnce ==
    /\ constructed <= 1
    /\ Cardinality(used) <= 1

\* C8: pick_avg_revenue returns the average (to the cent) of the 3 largest
\* monthly totals, or of all when fewer than 3, for NY and CA, and the average
\* of all monthly totals for any other state or none; {100, 200, 300, 50}
\* gives 200.0 for NY and 162.5 for no state.
AvgRevenueRule ==
    (rpc = "done" /\ monthly_deposits # <<>>) =>
        LET n == Len(monthly_deposits)
            best3 == state \in {Some("NY"), Some("ny"), Some("CA")}
            k == IF best3 THEN Min(3, n) ELSE n
            largest == CHOOSE T \in SUBSET (1..n) :
                          /\ Cardinality(T) = k
                          /\ \A i \in T, j \in (1..n) \ T :
                                monthly_deposits[i] >= monthly_deposits[j]
            total[U \in SUBSET (1..n)] ==
                IF U = {} THEN 0
                ELSE LET i == CHOOSE i \in U : TRUE
                     IN  monthly_deposits[i] + total[U \ {i}]
            cents == total[largest] * 100
        IN  /\ avgRevenue # None
            /\ 2 * (avgRevenue[1] * k - cents) <= k
            /\ 2 * (cents - avgRevenue[1] * k) <= k
            /\ (monthly_deposits = <<100, 200, 300, 50>> /\ state = Some("NY")) =>
                  avgRevenue = Some(20000)
            /\ (monthly_deposits = <<100, 200, 300, 50>> /\ state = None) =>
                  avgRevenue = Some(16250)

\* the four months of the example averaged for NY
Best3OfFourMonths ==
    /\ rpc = "done"
    /\ monthly_deposits = <<100, 200, 300, 50>>
    /\ state = Some("NY")
    /\ avgRevenue = Some(20000)

\* C9: a second run of extract_fields_from_bytes on the same bytes, at any
\* later time, returns the value the first run returned.
SameValueOnRerun ==
    (pc = "done" /\ prevRun # <<>>) => best.value = prevRun[Len(prevRun)]

\* C10: the lines "Business Start Date 01/01/2020" and "Application Date
\* 01/01/2024" resolve LengthOfOwnership to 48.0 months (4.00 years).
StartToApplicationDate ==
    (pc = "done" /\ field = "LengthOfOwnership"
       /\ lines = <<StartDateLine, ApplicationDateLine>>) =>
        best.value = Some([months10 |-> 480, years100 |-> 400])


\* C11: a State resolved from an anchor window is the result of the first of
\* the layers (a) City, ST ZIP in the window, (b) full state name in the
\* window, (c) ZIP prefix in the window, (d) stitched address blocks, (e) bare
\* 2-letter token of a window containing "address", that succeeds; a window
\* with a valid City, ST ZIP match and a different bare state token resolves
\* to the City, ST ZIP state.
StateLayersInOrder ==
    (field = "State" /\ pc \in {"nudge", "done"} /\ ~viaFallback) =>
        LET win == window(lines, hits[bestRank].idx)
            cszAt == { i \in 1..Len(win) : win[i].tok.csz # "" }
            zipAt == { i \in 1..Len(win) : win[i].tok.zip # "" }
            first(S) == CHOOSE i \in S : \A j \in S : i <= j
            a == cszAt # {} /\ win[first(cszAt)].tok.csz \in US_STATES
            b == \E i \in 1..Len(win) : win[i].tok.nm # ""
            c == zipAt # {} /\ win[first(zipAt)].tok.zip \in US_STATES
            d == \E k \in 1..Len(collect_address_blocks(lines)) :
                    BlockResult(collect_address_blocks(lines)[k]) # None
            tag == best.evidence.line.tag
        IN  /\ a => /\ tag = "[city,st,zip]"
                    /\ best.value = Some(win[first(cszAt)].tok.csz)
            /\ (~a /\ b) => /\ tag = "[state-name]"
                            /\ \E i \in 1..Len(win) : best.value = Some(win[i].tok.nm)
            /\ (~a /\ ~b /\ c) => /\ tag = "[zip-only]"
                                  /\ best.value = Some(win[first(zipAt)].tok.zip)
            /\ (~a /\ ~b /\ ~c /\ d) =>
                  tag \in {"[block city,st,zip]", "[block state-name]", "[block zip-only]"}
            /\ (~a /\ ~b /\ ~c /\ ~d) =>
                  /\ tag = "[address token]"
                  /\ \E i \in 1..Len(win) : win[i].tok.addr
                  /\ \E i \in 1..Len(win) : best.value = Some(win[i].tok.bare)

\* a window with "Dallas, TX 75201" and the bare token NY resolves to TX
CityStateZipBeatsToken ==
    /\ field = "State"
    /\ pc = "done"
    /\ ~viaFallback
    /\ \E i, j \in 1..Len(window(lines, hits[bestRank].idx)) :
          /\ window(lines, hits[bestRank].idx)[i].tok.csz = "TX"
          /\ window(lines, hits[bestRank].idx)[j].tok.bare = "NY"
          /\ window(lines, hits[bestRank].idx)[j].tok.addr = FALSE
    /\ \E i \in 1..Len(lines) : lines[i].tok.addr
    /\ best.value = Some("TX")
    /\ best.evidence.line.tag = "[city,st,zip]"


RawDates(i) ==
    {txns[k].dt : k \in {k \in 1..Len(txns) : txns[k].desc = DescTable[i].desc}}

InWeekly(n) == \E k \in 1..Len(positions.weekly) : positions.weekly[k] = n

FourWeekly == {Weekly[k] : k \in 1..Len(Weekly)}

TxnsSortedByDateDesc ==
    lpc = "parsed" =>
        \A i \in 1..Len(txns) : \A j \in i..Len(txns) : ~TxnBefore(txns[j], txns[i])

\* a year-less line moved ahead of an earlier line by the closing year, and
\* two lines of one day put in description order
RewrittenYearSorted ==
    /\ lpc = "parsed"
    /\ period # None
    /\ Len(stmt) = 3 /\ Len(txns) = 3
    /\ stmt[1].desc = "Rent" /\ stmt[2].desc = "Uber" /\ stmt[3].desc = "Deposit"
    /\ txns[1].desc = "Deposit" /\ txns[2].desc = "Uber" /\ txns[3].desc = "Rent"
    /\ YearOf(txns[1].dt) = 2025


\* the ranks among the hits consulted whose window yields a value
Yielding ==
    {i \in 1..Min(Len(hits), TopK) :
        Extract(field, lines, window(lines, hits[i].idx), now) # None}

\* C14: of two consulted hits of one field that both yield a value, the one
\* with the higher score is given a confidence at least as high, before and
\* after rounding; and a result resolved from an anchor has a confidence at
\* least the global-fallback confidence.
ConfidenceMonotonicInScore ==
    pc \in {"post", "nudge", "done"} =>
        /\ \E Y \in {Yielding} : \A i \in Y : \A j \in Y :
               hits[i].score >= hits[j].score =>
                   /\ HitConfidence(conf_base(field), hits[i].score)
                          >= HitConfidence(conf_base(field), hits[j].score)
                   /\ Round2(HitConfidence(conf_base(field), hits[i].score))
                          >= Round2(HitConfidence(conf_base(field), hits[j].score))
        /\ (best.value # None /\ ~viaFallback) => fwaConf >= FallbackConfidence

\* two yielding hits of different scores, the stronger strictly surer
StrongerHitSurer ==
    /\ pc = "post"
    /\ ~viaFallback
    /\ \E i \in Yielding : \E j \in Yielding :
           /\ hits[i].score > hits[j].score
           /\ Round2(HitConfidence(conf_base(field), hits[i].score))
                  > Round2(HitConfidence(conf_base(field), hits[j].score))


\* C15: the hits are exactly the (line, phrase) pairs scoring at least 80,
\* each once, in descending score and, among equal scores, ascending line.
HitsExactAndRanked ==
    pc \in {"post", "nudge", "done"} =>
        /\ \A k \in 1..Len(hits) :
               /\ hits[k].idx \in 1..Len(lines)
               /\ hits[k].score = lines[hits[k].idx].sc[hits[k].anchor]
               /\ hits[k].score >= Floor
        /\ \A idx \in 1..Len(lines) : \A a \in 1..2 :
               lines[idx].sc[a] >= Floor =>
                   Cardinality({k \in 1..Len(hits) :
                       hits[k].idx = idx /\ hits[k].anchor = a}) = 1
        /\ \A k \in 1..Len(hits) : \A l \in (k + 1)..Len(hits) :
               \/ hits[k].score > hits[l].score
               \/ hits[k].score = hits[l].score /\ hits[k].idx <= hits[l].idx

\* a later line outranks an earlier one by score, two lines tie on score, and
\* a line below the floor is left out
RankedAcrossLines ==
    /\ pc = "post"
    /\ Len(hits) >= 3
    /\ \E k \in 1..Len(hits) : \E l \in (k + 1)..Len(hits) :
           hits[k].score > hits[l].score /\ hits[k].idx > hits[l].idx
    /\ \E k \in 1..Len(hits) : \E l \in (k + 1)..Len(hits) :
           hits[k].score = hits[l].score /\ hits[k].idx < hits[l].idx
    /\ \E idx \in 1..Len(lines) : \A a \in 1..2 : lines[idx].sc[a] < Floor


\* some line of the text holds a date token dateparser rejects
HasRejectedDate(win) ==
    \E i \in 1..Len(win) : \E j \in 1..Len(win[i].tok.dates) : win[i].tok.dates[j] = None

\* C16: find_with_anchors never raises; when no consulted window and neither
\* the head nor the tail yields a value the result is FieldResult(None, 0.0,
\* {}); a date the parser rejects is dropped and the resolution goes on to the
\* other candidates of the text.
NeverRaisesNotFoundElse ==
    /\ pc # "raised"
    /\ (/\ pc = "post"
        /\ Yielding = {}
        /\ Extract(field, lines, head(lines), now) = None
        /\ Extract(field, lines, tail(lines), now) = None) => best = NotFound
    /\ (/\ pc = "post"
        /\ field = "LengthOfOwnership"
        /\ ~viaFallback
        /\ LET win == window(lines, hits[bestRank].idx)
           IN ReachesDates(win) /\ HasRejectedDate(win))
       => best.value = OrElse(
              FromDate(parse_date_candidate(window(lines, hits[bestRank].idx), now), now),
              FromYear(FirstMatch(window(lines, hits[bestRank].idx),
                                  LAMBDA l : l.tok.since # <<>>, LAMBDA l : l.tok.since), now))

\* a rejected date beside a good one: the good one is the value
RejectedDateSkipped ==
    /\ pc = "post"
    /\ field = "LengthOfOwnership"
    /\ ~viaFallback
    /\ HasRejectedDate(window(lines, hits[bestRank].idx))
    /\ best.value = FromDate(Some(StartDate), now)


YearTexts == {"2024", "2025", "2026"}
MonthTexts == {"01", "02", "03", "04", "05", "06", "07", "08", "09", "10", "11", "12"}

\* the well-formed YYYY-MM strings of the years of the documents
WellFormedMonths == {y \o "-" \o m : y \in YearTexts, m \in MonthTexts}

\* C17 as stated: statement_month is a well-formed YYYY-MM or "unknown".
MonthOrUnknown ==
    lpc = "labelled" => month \in WellFormedMonths \cup {"unknown"}

\* C17: statement_month is a well-formed YYYY-MM (4-digit year, month 01..12)
\* or the sentinel "[unknown]", and it is the sentinel exactly when no period
\* was found.
MonthOrBracketedUnknown ==
    lpc = "labelled" =>
        /\ month \in WellFormedMonths \cup {"[unknown]"}
        /\ month = "[unknown]" <=> period = None

\* a file name with an impossible date under a text without dates
UnknownFromBadFilename ==
    /\ lpc = "labelled"
    /\ month = "[unknown]"
    /\ filename # None
    /\ Len(stmt) >= 1
    /\ ~ValidDate(filename[1].y, filename[1].mo, filename[1].dd)


\* the sum of the amounts of the transactions dated in [d1, d]
PrefixSum(d1, d) ==
    SumSeq([i \in 1..Len(txns) |->
               IF d1 <= txns[i].dt /\ txns[i].dt <= d THEN txns[i].amount ELSE 0])

\* C18 as stated: for every day d of the period a balance is recorded and it
\* is the opening balance (0 when absent) plus the amounts of all
\* transactions dated in [period.start, d].
BalanceIsOpeningPlusPrefix ==
    (lpc \in {"rebuilt", "done"} /\ period # None) =>
        \A d \in period[1].start .. period[1].end :
            /\ d \in DOMAIN daily
            /\ daily[d] = StartBalance(opening) + PrefixSum(period[1].start, d)


\* C19: the result is the global fallback exactly when none of the first
\* eight ranked hits yields a value, whatever the later hits would yield; the
\* fallback is the extractor's value on the first 60 lines, and its value on
\* the last 60 lines only when the first 60 yield nothing.
FallbackIffTopEightEmpty ==
    pc \in {"post", "done"} =>
        /\ viaFallback <=> Yielding = {}
        /\ ~viaFallback => bestRank \in 1..TopK
        /\ viaFallback =>
               \E h \in {Extract(field, lines, head(lines), now)} :
                   IF h # None THEN best.value = h /\ best.confidence = FallbackConfidence
                   ELSE best = HeadTailResult(Extract(field, lines, tail(lines), now))

\* a ninth hit whose window holds a score is not consulted: the result is the
\* fallback
NinthHitIgnored ==
    /\ pc = "post"
    /\ viaFallback
    /\ Len(hits) > TopK
    /\ \E i \in (TopK + 1)..Len(hits) :
           Extract(field, lines, window(lines, hits[i].idx), now) # None



\* min(base + 0.35 * score / 100, 0.98) of the hit kept, to two decimals
AnchorConfidence ==
    100 * RoundDiv(Min(conf_base(field) + 35 * hits[bestRank].score, 9800), 100)

AnchorResolved == pc = "done" /\ best.value # None /\ ~viaFallback

DatesOf(n) == SortAscending(GroupDates(Normalized(txns), n))

\* the band of twice a median gap: [0.8, 1.3] days, [5.5, 8.5] days, neither
BandOf(m2) ==
    IF 16 <= 10 * m2 /\ 10 * m2 <= 26 THEN "daily"
    ELSE IF 110 <= 10 * m2 /\ 10 * m2 <= 170 THEN "weekly"
    ELSE ""

\* the band of a group from its dates in date order; none under 3 occurrences
Band(ds) == IF Len(ds) < 3 THEN "" ELSE BandOf(Median2(Gaps(ds)))

\* (name, band) of every group
GroupBands(ns) == {<<n, Band(SortAscending(GroupDates(ns, n)))>> : n \in GroupKeys(ns)}

Named(B, band) == {b[1] : b \in {b \in B : b[2] = band}}

InList(lst, n) == \E k \in 1..Len(lst) : lst[k] = n

\* C21 as stated: a group is in the daily list iff it has 3 or more
\* occurrences and a median gap in [0.8, 1.3] days, and in the weekly list iff
\* it has 3 or more and a median gap in [5.5, 8.5] days.
ListedIffMedianInBand ==
    lpc = "positions" =>
        \E B \in {GroupBands(Normalized(txns))} :
            /\ \A n \in Named(B, "daily") : InList(positions.daily, n)
            /\ \A n \in Named(B, "weekly") : InList(positions.weekly, n)
            /\ \A k \in 1..Len(positions.daily) : positions.daily[k] \in Named(B, "daily")
            /\ \A k \in 1..Len(positions.weekly) : positions.weekly[k] \in Named(B, "weekly")

\* C21: a normalized description is in the daily (weekly) list iff it has at
\* least 4 characters, is none of the generic words, its group has 3 or more
\* occurrences with a median gap in [0.8, 1.3] ([5.5, 8.5]) days, and fewer
\* than five such descriptions sort before it; a missed or a repeated day
\* that leaves the median in the band does not change the list.
ListedIffMedianInBandAndTopFive ==
    lpc = "positions" =>
        \E B \in {GroupBands(Normalized(txns))} :
        \E D \in {Named(B, "daily")} : \E W \in {Named(B, "weekly")} :
            /\ \A n \in D : InList(positions.daily, n) <=>
                   Cardinality({m \in D : NormBefore(m, n)}) < TopPositions
            /\ \A n \in W : InList(positions.weekly, n) <=>
                   Cardinality({m \in W : NormBefore(m, n)}) < TopPositions
            /\ \A k \in 1..Len(positions.daily) : positions.daily[k] \in D
            /\ \A k \in 1..Len(positions.weekly) : positions.weekly[k] \in W
            /\ \A n \in D \cup W : NormLen(n) >= 4 /\ n \notin Generic

\* "rent" with a missed day is daily, the payroll lines merged into one group
\* are neither
MissedDayStillDaily ==
    /\ lpc = "positions"
    /\ DatesOf(<<"rent">>) = <<1, 2, 3, 5>>
    /\ InList(positions.daily, <<"rent">>)
    /\ Len(DatesOf(<<"adp", "payroll">>)) >= 6
    /\ ~InList(positions.daily, <<"adp", "payroll">>)
    /\ ~InList(positions.weekly, <<"adp", "payroll">>)


\* lst is at most five names in strictly ascending order, the first of the
\* names in Q
FirstFiveOf(lst, Q) ==
    /\ Len(lst) <= TopPositions
    /\ \A k \in 1..Len(lst) : \A l \in (k + 1)..Len(lst) : NormBefore(lst[k], lst[l])
    /\ \A k \in 1..Len(lst) : lst[k] \in Q
    /\ \A n \in Q : InList(lst, n) \/
           (Len(lst) = TopPositions /\ \A k \in 1..Len(lst) : NormBefore(lst[k], n))

\* C22: each list of detect_positions has at most 5 entries, is sorted
\* ascending without duplicates and is the first 5, in sorted order, of the
\* qualifying names; no description is in both lists.
ListsAreFirstFiveSorted ==
    lpc = "positions" =>
        \E B \in {GroupBands(Normalized(txns))} :
            /\ FirstFiveOf(positions.daily, Named(B, "daily"))
            /\ FirstFiveOf(positions.weekly, Named(B, "weekly"))
            /\ \A k \in 1..Len(positions.daily) : ~InList(positions.weekly, positions.daily[k])

\* six weekly names of which the last is cut
SixthWeeklyCut ==
    /\ lpc = "positions"
    /\ Len(positions.weekly) = TopPositions
    /\ Cardinality(Named(GroupBands(Normalized(txns)), "weekly")) > TopPositions
    /\ ~InList(positions.weekly, <<"uber">>)


\* the transactions of one calendar month
InMonth(y, m) ==
    {i \in 1..Len(txns) : ToOrdinal(y, m, 1) <= txns[i].dt /\ txns[i].dt < ToOrdinal(y, m + 1, 1)}

\* the value of a dict at a key, 0 when the key is absent
At(d, k) == IF k \in DOMAIN d THEN d[k] ELSE 0

RECURSIVE SumOver(_)
SumOver(I) ==
    IF I = {} THEN 0
    ELSE LET i == CHOOSE i \in I : TRUE IN txns[i].amount + SumOver(I \ {i})

\* C23: for every (year, month) the debit count is the number of its
\* transactions with a negative amount, the credit count the number with a
\* positive amount, zero amounts count as neither, and the deposit total is
\* the sum of the positive amounts whose description holds no exclusion
\* keyword in any case; excluded deposits are counted as credits.
MonthlyCountsAndDeposits ==
    lpc = "counted" =>
        \A y \in {2025, 2026} : \A m \in {1, 2} :
            \E k \in {Pad(y, 4) \o "-" \o Pad(m, 2)} :
                /\ At(monthly.debit_counts, k) =
                       Cardinality({i \in InMonth(y, m) : txns[i].amount < 0})
                /\ At(monthly.credit_counts, k) =
                       Cardinality({i \in InMonth(y, m) : txns[i].amount > 0})
                /\ At(monthly.monthly_deposits, k) =
                       SumOver({i \in InMonth(y, m) :
                                   txns[i].amount > 0 /\ txns[i].desc # "Zelle"})
                /\ DOMAIN monthly.debit_counts \cup DOMAIN monthly.credit_counts
                       \cup DOMAIN monthly.monthly_deposits
                     \subseteq {"2025-01", "2025-02", "2026-01"}

\* a Zelle deposit counted as a credit and left out of the month's deposits,
\* beside a January of another year
ZelleCreditNotDeposit ==
    /\ lpc = "counted"
    /\ At(monthly.credit_counts, "2025-01") = 2
    /\ At(monthly.monthly_deposits, "2025-01") = 40
    /\ At(monthly.debit_counts, "2026-01") = 1


\* the text the duration was read from: the window of the hit kept, or the
\* document head on the fallback
DurationText == IF viaFallback THEN head(lines) ELSE window(lines, hits[bestRank].idx)

\* the first match of one grammar in a text, <<>> when it has none
FirstYm(w) == FirstMatch(w, LAMBDA l : l.tok.ym # <<>>, LAMBDA l : l.tok.ym)
FirstMo(w) == FirstMatch(w, LAMBDA l : l.tok.mo # <<>>, LAMBDA l : l.tok.mo)
FirstYr(w) == FirstMatch(w, LAMBDA l : l.tok.yr # <<>>, LAMBDA l : l.tok.yr)
FirstSince(w) == FirstMatch(w, LAMBDA l : l.tok.since # <<>>, LAMBDA l : l.tok.since)

\* the valid dates of a text: parsed, after 1900, not after now
ValidDates(w) ==
    {d \in {x[1] : x \in {x \in DateTokens(w) : x # <<>>}} : YearOf(d) > 1900 /\ d <= now}

\* the duration of a text by the first grammar that matches, in the order
\* years-and-months, months, years, earliest valid date, founding year
ByGrammarOrder(w) ==
    IF FirstYm(w) # None
    THEN Some(<<(12 * FirstYm(w)[1][1] + FirstYm(w)[1][2]) * 100,
                RoundDiv((12 * FirstYm(w)[1][1] + FirstYm(w)[1][2]) * 100, 12)>>)
    ELSE IF FirstMo(w) # None THEN FromMonths(FirstMo(w))
    ELSE IF FirstYr(w) # None THEN FromYears(FirstYr(w))
    ELSE IF ValidDates(w) # {}
    THEN FromDate(Some(CHOOSE d \in ValidDates(w) : \A e \in ValidDates(w) : d <= e), now)
    ELSE FromYear(FirstSince(w), now)

\* C24: a duration is read only from a text with a duration keyword, by the
\* first grammar that matches in the order 'N years M months', 'N months',
\* 'N years', earliest valid calendar date, founding year; a document without
\* any keyword yields no duration; 'N years M months' gives 12N + M months.
DurationByGrammarOrder ==
    (field = "LengthOfOwnership" /\ pc = "post") =>
        /\ best.value # None =>
               \E w \in {DurationText} :
                   /\ \E i \in 1..Len(w) : w[i].tok.kw
                   /\ best.value = ByGrammarOrder(w)
        /\ (\A i \in 1..Len(lines) : ~lines[i].tok.kw) => best.value = None

\* "18 months" beside "5 years" under a keyword line: the months are read
MonthsBeforeYears ==
    /\ field = "LengthOfOwnership"
    /\ pc = "post"
    /\ ~viaFallback
    /\ FirstYm(DurationText) = None
    /\ FirstMo(DurationText) = Some(1800)
    /\ FirstYr(DurationText) = Some(500)
    /\ best.value = Some(<<1800, 150>>)


\* the length of the secondary engine's output on a page ("" when the engine
\* is not installed)
SecondaryLen(k) == IF k.paddle = "ok" THEN k.plen ELSE 0

\* the page text is the longer output, the primary one on equal length
LongerOutput(k, t) ==
    IF SecondaryLen(k) > k.tlen
    THEN t.engine = "paddle" /\ t.len = SecondaryLen(k)
    ELSE t.engine = "tesseract" /\ t.len = k.tlen

\* C25: in the application path the source is 'native' iff the native text has
\* at least 1000 characters and 'ocr' otherwise; in OCR mode the secondary
\* engine is tried exactly on the pages whose primary text is under 100
\* characters, and the text of such a page is the longer of the two outputs,
\* the primary one on equal length.
SourceAndSecondaryEngine ==
    path = "application" =>
        /\ acqPc = "fields" =>
               /\ textSource = "native" <=> NativeLen(doc) >= 1000
               /\ textSource = "ocr" <=> NativeLen(doc) < 1000
        /\ acqPc \in {"ocr", "fields", "raised"} /\ NativeLen(doc) < 1000 =>
               /\ \A i \in paddleCalled : doc.pages[i].tlen < 100
               /\ \A i \in 1..Len(texts) :
                      \E k \in {doc.pages[i]} :
                          /\ k.tlen < 100 <=> i \in paddleCalled
                          /\ IF k.tlen < 100 THEN LongerOutput(k, texts[i])
                             ELSE texts[i] = PageOutput("tesseract", k.tlen)

\* a scanned application: one page of 99 characters whose secondary output
\* has 99 too (primary kept), one of 100 characters (secondary never tried)
TieKeepsPrimary ==
    /\ path = "application"
    /\ acqPc = "fields"
    /\ textSource = "ocr"
    /\ NativeLen(doc) = 999
    /\ Len(texts) = 2
    /\ doc.pages[1] = PageKind("ok", "ok", 99, "ok", 99)
    /\ texts[1] = PageOutput("tesseract", 99)
    /\ doc.pages[2].tlen = 100
    /\ paddleCalled = {1}


\* a line of the statement that matches a transaction grammar and parses
IsTxnLine(ln) == ln.form \in {"plain", "flagged"} /\ ln.ok

\* C26: when the period is known, parse_transactions gives every transaction
\* line without a four-digit year the statement's closing year and leaves the
\* year of a line with a four-digit year unchanged; hence every transaction of
\* a statement whose period lies in one calendar year is dated in that year.
ClosingYearAssigned ==
    (period # None /\ lpc \in {"parsed", "raised"}) =>
        /\ lpc = "parsed"
        /\ \A i \in 1..Len(stmt) :
               IsTxnLine(stmt[i]) =>
                   \E j \in 1..Len(txns) :
                       /\ txns[j].desc = stmt[i].desc
                       /\ txns[j].dt =
                              ToOrdinal(IF stmt[i].has4 THEN stmt[i].y ELSE YearOf(period[1].end),
                                        stmt[i].m, stmt[i].d)
        /\ YearOf(period[1].start) = YearOf(period[1].end) =>
               \A j \in 1..Len(txns) : YearOf(txns[j].dt) = YearOf(period[1].end)


\* the candidates the three strategies produce, in the order they are
\* consulted: the anchor window's, the layout-aware one (native text only),
\* the text heuristic's (run only under an anchor confidence below 0.82)
ProducedNames ==
    << best.value,
       IF source = "native" /\ layoutRes # None THEN Some(layoutRes[1].val) ELSE None,
       IF best.confidence < 8200 /\ textRes # None THEN Some(textRes[1].val) ELSE None >>

\* the boosts of the strategies that produced a candidate
ProducedBoosts ==
    (IF source = "native" /\ layoutRes # None THEN layoutRes[1].boost ELSE 0)
  + (IF best.confidence < 8200 /\ textRes # None THEN textRes[1].boost ELSE 0)

\* the first candidate of highest name score
FirstBest(cs) ==
    IF \A i \in 1..Len(cs) : cs[i] = None THEN None
    ELSE cs[CHOOSE k \in 1..Len(cs) :
                /\ cs[k] # None
                /\ \A i \in 1..Len(cs) :
                       cs[i] # None =>
                           \/ name_score(cs[i][1]) < name_score(cs[k][1])
                           \/ name_score(cs[i][1]) = name_score(cs[k][1]) /\ k <= i]

\* C27: the business name returned is the produced candidate of highest name
\* score, the earliest one on equal score, and its confidence is
\* max(anchor confidence, 0.70) plus the boosts of the strategies that ran
\* (and 0.03 for a corporate suffix), capped at 0.99.
BestScoredNameKept ==
    [][BusinessName =>
          \E cs \in {ProducedNames} :
              /\ best'.value = FirstBest(cs)
              /\ best'.value # None =>
                     best'.confidence =
                         Min(9900, Max(best.confidence, 7000) + ProducedBoosts
                                     + (IF best'.value[1].suffix THEN 300 ELSE 0))]_vars

\* no anchor value; the layout gave "Joes Pizza", the text heuristic "Pizza
\* Palace" of the same score: the layout's name is kept, both boosts added
EqualScoreKeepsEarlierName ==
    /\ field = "BusinessName"
    /\ pc = "done"
    /\ source = "native"
    /\ fwaConf = 0
    /\ layoutRes = Some([val |-> JoesPizza, boost |-> 1000])
    /\ textRes = Some([val |-> PizzaPalace, boost |-> 600])
    /\ name_score(JoesPizza) = name_score(PizzaPalace)
    /\ best.value = Some(JoesPizza)
    /\ best.evidence.anchor = "layout-aware"
    /\ best.confidence = 7000 + 1000 + 600


\* the abbreviation an evidence line was derived from: the layer its tag
\* names, read on its text
EvidenceAbbr(line) ==
    CASE line.tag \in {"[city,st,zip]", "[block city,st,zip]"} -> CityStateZip(line.ls)
      [] line.tag \in {"[state-name]", "[block state-name]"} -> StateName(line.ls)
      [] line.tag \in {"[zip-only]", "[block zip-only]"} -> ZipOnly(line.ls)
      [] line.tag = "[address token]" -> AddressToken(line.ls)
      [] OTHER -> None

\* C28: once the State evidence has been rewritten by the second resolution,
\* the abbreviation the evidence was derived from is State.value, for
\* anchor-resolved and for fallback-resolved states.
StateEvidenceAgrees ==
    (field = "State" /\ pc \in {"nudge", "done"} /\ best.value # None
        /\ best.evidence.anchor = "address-aware") =>
        EvidenceAbbr(best.evidence.line) = best.value

\* the same for the states resolved through an anchor hit only
AnchorStateEvidenceAgrees ==
    (field = "State" /\ pc \in {"nudge", "done"} /\ best.value # None
        /\ best.evidence.anchor = "address-aware" /\ ~viaFallback) =>
        EvidenceAbbr(best.evidence.line) = best.value


\* the rows the request wrote: those of its own deal
OwnRows == SelectSeq(deliveries, LAMBDA r : r.deal_id = 8)

\* the mail sends attempted for entry i of the list
MailsFor(i) == {k \in 1..Len(outbox) : outbox[k].entry = i}

\* the lender of entry i was already delivered under the parent deal
DeliveredUnderParent(i) ==
    /\ request.parent_deal_id # None
    /\ \E j \in 1..Len(deliveries) :
           /\ deliveries[j].deal_id = request.parent_deal_id[1]
           /\ LowerName(deliveries[j].lender_name) = LowerName(Strip(request.selected[i]))

\* C29: a send_emails request that reaches the loop writes exactly one
\* delivery record per entry of the list, with status sent, error or skipped,
\* and attempts at most one mail per entry; a lender in the exclude set, or
\* already delivered under parent_deal_id, is never mailed and is recorded as
\* skipped; a lender without recipient is never mailed.
OneRecordPerSelectedLender ==
    (spc = "done" /\ response[1].code \in {200, 500}) =>
        /\ Len(OwnRows) = Len(request.selected)
        /\ \A i \in 1..Len(request.selected) :
               /\ i <= Len(OwnRows) =>
                      /\ OwnRows[i].lender_name = Strip(request.selected[i])
                      /\ OwnRows[i].status \in {"sent", "error", "skipped"}
               /\ Cardinality(MailsFor(i)) <= 1
               /\ (LowerName(Strip(request.selected[i])) \in RequestExclude(request)
                      \/ DeliveredUnderParent(i)) =>
                      /\ MailsFor(i) = {}
                      /\ i <= Len(OwnRows) /\ OwnRows[i].status = "skipped"
               /\ Recipient(LowerName(Strip(request.selected[i]))) = "" => MailsFor(i) = {}

\* what holds of every request: the rows written are a prefix of the list's
\* entries in order, no entry is mailed twice, and a lender in the request's
\* own exclude list or without recipient is never mailed
RecordsFollowTheList ==
    spc = "done" =>
        /\ Len(OwnRows) <= Len(request.selected)
        /\ response[1].code = 200 => Len(OwnRows) = Len(request.selected)
        /\ \A i \in 1..Len(request.selected) :
               /\ i <= Len(OwnRows) =>
                      /\ OwnRows[i].lender_name = Strip(request.selected[i])
                      /\ OwnRows[i].status \in {"sent", "error", "skipped"}
               /\ Cardinality(MailsFor(i)) <= 1
               /\ (LowerName(Strip(request.selected[i])) \in RequestExclude(request)
                      \/ Recipient(LowerName(Strip(request.selected[i]))) = "") =>
                      MailsFor(i) = {}



====
